---- MODULE Spec2Model ----
(***************************************************************************)
(* Upload lifecycle engine of eclipse-kanto/file-upload (package client).  *)
(* One multi-file (aggregate) upload with its single-file children, the    *)
(* registry that maps correlation IDs to them, the workers that transfer   *)
(* the files, external cancel operations and the graceful Stop of the      *)
(* registry.  Every lock-protected section of the Go code is one step.     *)
(***************************************************************************)
EXTENDS Integers, Naturals, Sequences, FiniteSets, TLC

\* ------------------------------------------------------------------ bounds

\* number of paths handed to AddMulti
MaxChildren == 2
\* start operations (Get followed by start) issued by the control plane
MaxStartCalls == 2
\* cancel operations issued by the control plane
MaxCancels == 1
\* largest timeout, in seconds, handed to Uploads.Stop
MaxStopTimeout == 3
MaxCapacity == 4      \* the largest ring buffer capacity tried
MaxPuts == 6          \* the most items put into the ring buffer under test
MaxPutArgs == 2       \* the most elements handed to one put call
QueueSize == 2        \* the size the events consumer is constructed with
MaxAdds == 4          \* the most events added to the events consumer
MaxProducers == 2     \* the goroutines that call add
MaxQueueStops == 2    \* the most calls of the events consumer's stop
MaxTime == 5          \* the last instant of the periodic executor's clock
TickPeriod == 2       \* e.period, in clock instants
MaxExecutorStops == 2 \* the most calls of PeriodicExecutor.Stop
MaxTriggers == 3      \* the most calls of FileUpload.DoTrigger
MaxFiles == 2         \* the most paths a glob yields
MaxThreads == 3       \* the goroutines inside the upload engine

\* ------------------------------------------------- constants of the source

StatePending == "PENDING"
StateUploading == "UPLOADING"
StatePaused == "PAUSED"
StateSuccess == "SUCCESS"
StateFailed == "FAILED"
StateCanceled == "CANCELED"

fineGrainedUploadProgressNotSupported == -1

\* time.Sleep(2 * time.Second) in Uploads.Stop
PollSeconds == 2

\* Go's float64 has 52 fraction bits after the leading 1, float32 has 23.
\* The fraction is kept in limbs, most significant first, of these widths.
Float64Limbs == <<13, 13, 13, 13>>
Float32Limbs == <<12, 11>>

\* --------------------------------------------- binary floating point (Go)
\* A positive float is [f |-> fraction limbs, e |-> exponent]: the value
\* 1.f * 2^e.  Zero is FZero.  Every operation rounds as IEEE-754 does
\* (to nearest, ties to even), which is what Go's float arithmetic does.

FZero == [f |-> << >>, e |-> 0]

RECURSIVE Pow2(_)
Pow2(n) == IF n = 0 THEN 1 ELSE 2 * Pow2(n - 1)

\* largest k with d * 2^k <= n   (n >= d > 0)
RECURSIVE ShiftUp(_, _)
ShiftUp(n, d) == IF 2 * d <= n THEN 1 + ShiftUp(n, 2 * d) ELSE 0

\* smallest j with n * 2^j >= d   (0 < n)
RECURSIVE ShiftDown(_, _)
ShiftDown(n, d) == IF n >= d THEN 0 ELSE 1 + ShiftDown(2 * n, d)

\* the limbs of the binary expansion of r/d (0 <= r < d) from limb i on,
\* and the remainder left after the last one: <<limbs, remainder>>
RECURSIVE FracLimbs(_, _, _, _)
FracLimbs(r, d, W, i) ==
    IF i > Len(W) THEN <<<< >>, r>>
    ELSE LET x == r * Pow2(W[i])
             rest == FracLimbs(x % d, d, W, i + 1)
         IN  <<(<<x \div d>> \o rest[1]), rest[2]>>

\* the fraction plus one unit in its last place: <<limbs, carry out>>
RECURSIVE IncLimbs(_, _, _)
IncLimbs(f, W, i) ==
    IF i = 0 THEN <<f, 1>>
    ELSE IF f[i] + 1 < Pow2(W[i]) THEN <<[f EXCEPT ![i] = f[i] + 1], 0>>
    ELSE IncLimbs([f EXCEPT ![i] = 0], W, i - 1)

\* float(n) / float(d), for integers n >= 0 and d > 0 that floats hold exactly
FDiv(n, d, W) ==
    IF n = 0 THEN FZero
    ELSE LET up == IF n >= d THEN ShiftUp(n, d) ELSE 0
             down == IF n >= d THEN 0 ELSE ShiftDown(n, d)
             nn == n * Pow2(down)
             dd == d * Pow2(up)
             fl == FracLimbs(nn - dd, dd, W, 1)
             f == fl[1]
             r == fl[2]
             guard == 2 * r >= dd
             sticky == (IF guard THEN 2 * r - dd ELSE 2 * r) > 0
             odd == f[Len(W)] % 2 = 1
             inc == IncLimbs(f, W, Len(W))
         IN  IF ~(guard /\ (sticky \/ odd)) THEN [f |-> f, e |-> up - down]
             ELSE IF inc[2] = 1 THEN [f |-> inc[1], e |-> up - down + 1]
             ELSE [f |-> inc[1], e |-> up - down]

\* 100 * 0.f, exactly: <<fraction limbs, integer part>>
RECURSIVE Mul100Limbs(_, _, _)
Mul100Limbs(f, W, i) ==
    IF i > Len(W) THEN <<<< >>, 0>>
    ELSE LET lo == Mul100Limbs(f, W, i + 1)
             x == 100 * f[i] + lo[2]
         IN  <<(<<x % Pow2(W[i])>> \o lo[1]), x \div Pow2(W[i])>>

\* int(q), truncation toward zero, for 0 <= q < 2^(W[1])
FTrunc(q, W) ==
    IF q = FZero \/ q.e < 0 THEN 0
    ELSE Pow2(q.e) + (q.f[1] \div Pow2(W[1] - q.e))

\* int(100 * q) for 0 <= q <= 1.  The exact product 100 * 1.f has an integer
\* part `top` in 100..199, that is 7 or 8 bits, so rounding it to the float's
\* precision drops the last g = 6 or 7 bits of the fraction; the rounded
\* product's integer part is top, or top + 1 when the rounding carries
\* through a fraction of all ones.  The result is that times 2^e, truncated.
FTrunc100(q, W) ==
    IF q = FZero THEN 0
    ELSE LET n == Len(W)
             pr == Mul100Limbs(q.f, W, 1)
             fr == pr[1]
             top == 100 + pr[2]
             g == IF top < 128 THEN 6 ELSE 7
             low == fr[n] % Pow2(g)
             kept == fr[n] \div Pow2(g)
             half == Pow2(g - 1)
             up == low > half \/ (low = half /\ kept % 2 = 1)
             ones == /\ kept = Pow2(W[n] - g) - 1
                     /\ \A i \in 1..(n - 1) : fr[i] = Pow2(W[i]) - 1
             rounded == IF up /\ ones THEN top + 1 ELSE top
         IN  rounded \div Pow2(0 - q.e)

\* int((100 * float64(t)) / float64(s)), the percentage of changeProgress
ChangeProgressPercent(t, s) == FTrunc(FDiv(100 * t, s, Float64Limbs), Float64Limbs)

\* int(100 * (float64(t) / float64(s))), the percentage of uploadFinished
FinishedBytesPercent(t, s) == FTrunc100(FDiv(t, s, Float64Limbs), Float64Limbs)

\* int(100 * (float32(done) / float32(total))), the file-count percentage
FinishedCountPercent(done, total) ==
    FTrunc100(FDiv(done, total, Float32Limbs), Float32Limbs)

\* -------------------------------------------------------------- the state

VARIABLES
    uploads,                \* Uploads.uploads: the registered correlation IDs
    added,                  \* AddMulti has run
    children,               \* MultiUpload.children: the IDs it holds
    totalCount,             \* MultiUpload.totalCount
    totalSizeBytes,         \* MultiUpload.totalSizeBytes
    totalBytesTransferred,  \* MultiUpload.totalBytesTransferred
    status,                 \* MultiUpload.status
    childSize,              \* SingleUpload.totalSizeBytes, per child
    bytesTransferred,       \* SingleUpload.bytesTransferred, per child
    started,                \* SingleUpload.started, per child
    file,                   \* SingleUpload.file and the state of the handle
    worker,                 \* where the start call / worker goroutine stands
    err,                    \* the error the worker goes on to report
    refs,                   \* start operations between Get and start
    startCalls,             \* start operations issued so far
    accepted,               \* start calls that returned nil, per child
    rejected,               \* start calls answered "already started"
    invocations,            \* UploadFile invocations, per child
    cancels,                \* the goroutines `go up.cancel(code, message)`
    stop,                   \* Uploads.Stop
    events,                 \* the statuses handed to the listener, in order
    leftOpen                \* the handles the last internalCancel pass left open

VARIABLES
    ring,                   \* a ringBuffer: elements, start, end
    capacity,               \* the size that ringBuffer was created with
    ringPuts,               \* history: the items put so far are 1..ringPuts
    ringDrained,            \* history: the items get has returned, in order
    ringEmptySeen           \* history: get has reported the buffer empty

VARIABLES
    buf,                    \* statusEventsConsumer.buf
    closed,                 \* statusEventsConsumer.closed
    condL,                  \* who holds cond.L: "free", "consumer", "add", "stop"
    loop,                   \* where the eventLoop goroutine is
    adding,                 \* per producer: "idle", or "locked" inside add
    stopping,               \* "idle", or "locked" inside stop
    addCount,               \* history: the events add has put are 1..addCount
    consumed,               \* history: the events consume was called with
    overwritten,            \* history: the unread events a put has discarded
    stopCalls               \* history: the stop calls that have returned

VARIABLES
    now,                    \* the clock
    from,                   \* NewPeriodicExecutor's from, NoTime for nil
    to,                     \* NewPeriodicExecutor's to, NoTime for nil
    fromTimer,              \* e.fromTimer: "nil", "pending", "fired",
                            \*   "stopped", or "cleared" after it fired
    toTimer,                \* e.toTimer, likewise
    fromCall,               \* the from timer's callback: "none", "lock", "done"
    toCall,                 \* the to timer's callback, also "send"
    ticker,                 \* e.ticker: "nil" or "set"
    tickPending,            \* a tick waits in ticker.C
    mutex,                  \* who holds e.mutex: "free", "to", "stop"
    routine,                \* where the goroutine of startTicker is
    stopPc,                 \* where the current Stop call is
    stopsReturned,          \* history: the Stop calls that have returned
    startedAt,              \* history: the instant startTicker ran, or NoTime
    taskTimes               \* history: the instants the task was invoked at

VARIABLES
    mode,                   \* FileUpload.mode
    filesGlob,              \* FileUpload.filesGlob
    singleUpload,           \* UploadableConfig.SingleUpload
    registry,               \* Uploads.uploads of the feature: id -> upload
    uploading,              \* the aggregates whose status is UPLOADING
    requests,               \* the goroutines `go u.sendUploadRequest(...)`
    triggers,               \* the DoTrigger calls past their checks: pc, id,
                            \* glob, files found, next child to register
    lastCall                \* history: the last DoTrigger call and its error

VARIABLES
    startOp                 \* the start operation handled: id, options, pc,
                            \* response status

VARIABLES
    featureState,           \* AutoUploadable.state: active, startTime, endTime
    executor,               \* AutoUploadable.executor: nil, the executor of
                            \* the timer variables, or the one activate made
    uMutex,                 \* AutoUploadable.mutex
    op,                     \* the activate or Disconnect call: pc, arguments,
                            \* response status
    published,              \* the autoUpload property values sent
    steps,                  \* history: the steps Disconnect has completed
    gotUID                  \* whether the task invocation is past nextUID

VARIABLES
    threads                 \* per goroutine: the operation it is in and the
                            \* step of it that comes next

uploadVars == <<uploads, added, children, totalCount, totalSizeBytes,
          totalBytesTransferred, status, childSize, bytesTransferred, started,
          file, worker, err, refs, startCalls, accepted, rejected, invocations,
          cancels, stop, events, leftOpen>>

ringVars == <<ring, capacity, ringPuts, ringDrained, ringEmptySeen>>
queueVars == <<buf, closed, condL, loop, adding, stopping, addCount, consumed,
               overwritten, stopCalls>>

timerVars == <<now, from, to, fromTimer, toTimer, fromCall, toCall, ticker,
               tickPending, mutex, routine, stopPc, stopsReturned, startedAt,
               taskTimes>>

triggerVars == <<mode, filesGlob, singleUpload, registry, uploading, requests,
                 triggers, lastCall>>

controlVars == <<startOp>>
featureVars == <<featureState, executor, uMutex, op, published, steps, gotUID>>
lockVars == <<threads>>

vars == <<uploadVars, ringVars, queueVars, timerVars, triggerVars,
          controlVars, featureVars, lockVars>>

aggVars == <<totalCount, totalSizeBytes, childSize>>
startVars == <<refs, startCalls, accepted, rejected>>

\* correlation IDs: the aggregate's, and "<parent>#<i>" for child i
MultiID == 0
Children == 1..MaxChildren
NoID == -1

\* what os.Stat reports for a path: a size, or an error
StatError == -1
FileSizes == {0, 21, 29}
StatResults == FileSizes \cup {StatError}

\* error texts of os.Open and of Uploader.UploadFile
ErrOpen == "no such file or directory"
ErrUpload == "upload failed"
\* error text of a read from a handle that has been closed
ErrClosed == "file already closed"

\* start options carry one info dictionary
Infos == {"info"}

\* the k-th cancel operation carries its own code and message
CancelCode(k) == "code" \o ToString(k)
CancelMessage(k) == "message" \o ToString(k)

\* u.status == nil, and the Go zero value &UploadStatus{}
ZeroStatus == [CorrelationID |-> NoID, State |-> "", StartTime |-> FALSE,
               EndTime |-> FALSE, StatusCode |-> "", Message |-> "",
               Progress |-> 0, Info |-> ""]
NilStatus == [ZeroStatus EXCEPT !.State = "nil"]

finished(s) == s.State \in {StateSuccess, StateCanceled, StateFailed}

\* ------------------------------------------------------------ the registry

\* a Remove that deletes the entry alone and leaves a parent's children
RemoveEntryOnly(reg, id, held) == reg \ {id}

\* Uploads.Remove: the entry, and for a multi upload the children it holds
Remove(reg, id, held) ==
    IF id \notin reg THEN reg
    ELSE IF id = MultiID THEN reg \ ({MultiID} \cup held)
    ELSE reg \ {id}

hasPendingUploads ==
    MultiID \in uploads /\ status # NilStatus /\ status.State = StateUploading

\* the sizes AddMulti records for the stat results st[1..n]: once a stat
\* fails the total is the sentinel and no further path is examined
RECURSIVE SizesUpTo(_, _)
SizesUpTo(st, i) ==
    IF i = 0 THEN [total |-> 0, size |-> [c \in Children |-> 0]]
    ELSE LET prev == SizesUpTo(st, i - 1)
         IN  IF prev.total = fineGrainedUploadProgressNotSupported THEN prev
             ELSE IF st[i] = StatError
             THEN [prev EXCEPT !.total = fineGrainedUploadProgressNotSupported]
             ELSE [total |-> prev.total + st[i],
                   size |-> [prev.size EXCEPT ![i] = st[i]]]

InitUploads ==
    /\ uploads = {}
    /\ added = FALSE
    /\ children = {}
    /\ totalCount = 0
    /\ totalSizeBytes = 0
    /\ totalBytesTransferred = 0
    /\ status = NilStatus
    /\ childSize = [c \in Children |-> 0]
    /\ bytesTransferred = [c \in Children |-> 0]
    /\ started = [c \in Children |-> 0]
    /\ file = [c \in Children |-> "nil"]
    /\ worker = [c \in Children |-> "idle"]
    /\ err = [c \in Children |-> ""]
    /\ refs = [c \in Children |-> 0]
    /\ startCalls = 0
    /\ accepted = [c \in Children |-> 0]
    /\ rejected = [c \in Children |-> 0]
    /\ invocations = [c \in Children |-> 0]
    /\ cancels = << >>
    /\ stop = [pc |-> "idle", timeout |-> 0, elapsed |-> 0, pending |-> TRUE]
    /\ events = << >>
    /\ leftOpen = {}

\* Uploads.AddMulti with n paths whose stat results are st
AddMulti(n, st) ==
    /\ ~added
    /\ added' = TRUE
    /\ LET sz == SizesUpTo(st, n)
       IN  /\ totalSizeBytes' = sz.total
           /\ childSize' = sz.size
    /\ totalCount' = n
    /\ children' = 1..n
    /\ uploads' = uploads \cup (1..n) \cup {MultiID}
    /\ UNCHANGED <<totalBytesTransferred, status, bytesTransferred, started,
                   file, worker, err, startVars, invocations, cancels, stop,
                   events>>
    /\ UNCHANGED leftOpen

\* ------------------------------------------------- the status transitions

\* the listener receives the status; AutoUploadable.uploadStatusUpdated
\* copies it (s := *status) before it queues it
Notify(s) == events' = Append(events, s)

\* MultiUpload.uploadStarted: the status a first start installs
StartedStatus(info) ==
    [ZeroStatus EXCEPT !.CorrelationID = MultiID, !.State = StateUploading,
                       !.StartTime = TRUE, !.Progress = 0, !.Info = info]

\* an uploadStarted that installs the status on every call
FirstStartAlways(s) == TRUE

\* MultiUpload.uploadStarted: does this call install the status?
FirstStart(s) == ~(s # NilStatus /\ s.State # StatePending)

\* MultiUpload.cancel: the status after the locked section
CanceledStatus(s, code, message) ==
    [(IF s = NilStatus THEN ZeroStatus ELSE s)
        EXCEPT !.State = StateCanceled, !.StatusCode = code,
               !.Message = message, !.EndTime = TRUE]

\* MultiUpload.uploadFailed: the status after the locked section
FailedStatus(s, e) ==
    [s EXCEPT !.State = StateFailed, !.EndTime = TRUE, !.Message = e]

\* MultiUpload.changeProgress: does the locked section touch the status?
ProgressCounts(total) ==
    total # 0 /\ total # fineGrainedUploadProgressNotSupported

\* MultiUpload.uploadFinished: the transferred total after child c is done
ToppedUp(c) == totalBytesTransferred + (childSize[c] - bytesTransferred[c])

\* an uploadFinished whose last-child branch leaves the progress as it is
FinishedStatusStaleProgress(s, c, remaining) ==
    IF remaining = 0
    THEN [s EXCEPT !.State = StateSuccess, !.EndTime = TRUE]
    ELSE IF ProgressCounts(totalSizeBytes)
    THEN [s EXCEPT !.Progress = FinishedBytesPercent(ToppedUp(c), totalSizeBytes)]
    ELSE [s EXCEPT !.Progress = FinishedCountPercent(totalCount - remaining, totalCount)]

\* MultiUpload.uploadFinished: the status after the locked section, with
\* `remaining` children left
FinishedStatus(s, c, remaining) ==
    IF remaining = 0
    THEN [s EXCEPT !.Progress = 100, !.State = StateSuccess, !.EndTime = TRUE]
    ELSE IF ProgressCounts(totalSizeBytes)
    THEN [s EXCEPT !.Progress = FinishedBytesPercent(ToppedUp(c), totalSizeBytes)]
    ELSE [s EXCEPT !.Progress = FinishedCountPercent(totalCount - remaining, totalCount)]

\* SingleUpload.internalCancel on each of the children `cs`: an open handle
\* is closed, a nil or closed one stays as it is
CloseFiles(cs) ==
    [c \in Children |-> IF c \in cs /\ file[c] = "open" THEN "closed" ELSE file[c]]

\* the worker's deferred file.Close()
CloseOwn(c) ==
    [file EXCEPT ![c] = IF file[c] = "nil" THEN "nil" ELSE "closed"]

\* ------------------------------------------------------------------- start

\* AutoUploadable.start: Get finds the child, start is about to be called
StartGet(c) ==
    /\ c \in uploads
    /\ startCalls < MaxStartCalls
    /\ startCalls' = startCalls + 1
    /\ refs' = [refs EXCEPT ![c] = @ + 1]
    /\ UNCHANGED <<uploads, added, children, aggVars, totalBytesTransferred,
                   status, bytesTransferred, started, file, worker, err,
                   accepted, rejected, invocations, cancels, stop, events>>
    /\ UNCHANGED leftOpen

\* a start that does not test the flag: every caller wins the swap
CompareAndSwapStartedBlind(c) == TRUE

\* atomic.CompareAndSwapUint32(&u.started, 0, 1)
CompareAndSwapStarted(c) == started[c] = 0

\* SingleUpload.start up to the compare-and-swap: getUploader rejects bad
\* options, a lost swap answers "already started"
StartCall(c, validOptions) ==
    /\ refs[c] > 0
    /\ refs' = [refs EXCEPT ![c] = @ - 1]
    /\ IF ~validOptions
       THEN UNCHANGED <<started, worker, accepted, rejected>>
       ELSE IF CompareAndSwapStarted(c)
       THEN /\ started' = [started EXCEPT ![c] = 1]
            /\ worker' = [worker EXCEPT ![c] = "started"]
            /\ accepted' = [accepted EXCEPT ![c] = @ + 1]
            /\ UNCHANGED rejected
       ELSE /\ rejected' = [rejected EXCEPT ![c] = @ + 1]
            /\ UNCHANGED <<started, worker, accepted>>
    /\ UNCHANGED <<uploads, added, children, aggVars, totalBytesTransferred,
                   status, bytesTransferred, file, err, startCalls,
                   invocations, cancels, stop, events>>
    /\ UNCHANGED leftOpen

\* SingleUpload.start after the swap: parent.uploadStarted, then `go func()`
UploadStarted(c, info) ==
    /\ worker[c] = "started"
    /\ worker' = [worker EXCEPT ![c] = "open"]
    /\ IF FirstStart(status)
       THEN /\ status' = StartedStatus(info)
            /\ Notify(status')
       ELSE UNCHANGED <<status, events>>
    /\ UNCHANGED <<uploads, added, children, aggVars, totalBytesTransferred,
                   bytesTransferred, started, file, err, startVars,
                   invocations, cancels, stop>>
    /\ UNCHANGED leftOpen

\* ------------------------------------------------------------- the worker

\* os.Open(u.filePath) succeeds: u.file is set and UploadFile is entered
WorkerOpen(c) ==
    /\ worker[c] = "open"
    /\ file' = [file EXCEPT ![c] = "open"]
    /\ invocations' = [invocations EXCEPT ![c] = @ + 1]
    /\ worker' = [worker EXCEPT ![c] = "transfer"]
    /\ UNCHANGED <<uploads, added, children, aggVars, totalBytesTransferred,
                   status, bytesTransferred, started, err, startVars, cancels,
                   stop, events>>
    /\ UNCHANGED leftOpen

\* the cumulative byte counts an uploader reports for a file of `size` bytes
ReportedBytes(size) == {size \div 2, size} \ {0}

\* progressFunc(b) followed by MultiUpload.changeProgress(change)
Progress(c, b) ==
    /\ worker[c] = "transfer"
    /\ totalSizeBytes # fineGrainedUploadProgressNotSupported
    /\ ~(childSize[c] = 0 /\ b # 0)
    /\ bytesTransferred[c] # b
    /\ bytesTransferred' = [bytesTransferred EXCEPT ![c] = b]
    /\ IF ProgressCounts(totalSizeBytes)
       THEN LET t == totalBytesTransferred + (b - bytesTransferred[c])
                newProgress == ChangeProgressPercent(t, totalSizeBytes)
            IN  /\ totalBytesTransferred' = t
                /\ status' = [status EXCEPT !.Progress = newProgress]
                /\ IF newProgress # status.Progress
                   THEN Notify(status')
                   ELSE UNCHANGED events
       ELSE UNCHANGED <<totalBytesTransferred, status, events>>
    /\ UNCHANGED <<uploads, added, children, aggVars, started, file, worker,
                   err, startVars, invocations, cancels, stop>>
    /\ UNCHANGED leftOpen

\* The worker leaves the transfer and enters uploadFinished or uploadFailed,
\* whose first step is MultiUpload.removeChild, the locked part:
\* delete(u.children, id).  os.Open returns an error (e = ErrOpen), or
\* uploader.UploadFile returns nil (e = "") or an error (e = ErrUpload): a
\* failed request (e = ErrUpload), or a read from a handle that a cancel
\* has closed (e = ErrClosed).
RemoveChild(c, e) ==
    /\ \/ worker[c] = "open" /\ e = ErrOpen
       \/ worker[c] = "transfer" /\ e \in {"", ErrUpload}
       \/ worker[c] = "transfer" /\ e = ErrClosed /\ file[c] = "closed"
    /\ err' = [err EXCEPT ![c] = e]
    /\ children' = children \ {c}
    /\ worker' = [worker EXCEPT ![c] = IF e = ""
                                       THEN "finishedUnreg" ELSE "failedUnreg"]
    /\ UNCHANGED <<uploads, added, aggVars, totalBytesTransferred, status,
                   bytesTransferred, started, file, startVars, invocations,
                   cancels, stop, events>>
    /\ UNCHANGED leftOpen

\* MultiUpload.removeChild, the deferred part: u.uploads.Remove(id)
UnregisterChild(c) ==
    /\ worker[c] \in {"finishedUnreg", "failedUnreg"}
    /\ uploads' = Remove(uploads, c, {})
    /\ worker' = [worker EXCEPT ![c] = IF worker[c] = "finishedUnreg"
                                       THEN "finishedLock" ELSE "failedLock"]
    /\ UNCHANGED <<added, children, aggVars, totalBytesTransferred, status,
                   bytesTransferred, started, file, err, startVars,
                   invocations, cancels, stop, events>>
    /\ UNCHANGED leftOpen

\* MultiUpload.uploadFinished, the locked section
UploadFinished(c) ==
    /\ worker[c] = "finishedLock"
    /\ IF finished(status)
       THEN /\ worker' = [worker EXCEPT ![c] = "done"]
            /\ file' = CloseOwn(c)
            /\ UNCHANGED <<totalBytesTransferred, status, events>>
       ELSE LET remaining == Cardinality(children)
            IN  /\ totalBytesTransferred' =
                       IF remaining # 0 /\ ProgressCounts(totalSizeBytes)
                       THEN ToppedUp(c) ELSE totalBytesTransferred
                /\ status' = FinishedStatus(status, c, remaining)
                /\ Notify(status')
                /\ IF remaining = 0
                   THEN /\ worker' = [worker EXCEPT ![c] = "finishedRemove"]
                        /\ UNCHANGED file
                   ELSE /\ worker' = [worker EXCEPT ![c] = "done"]
                        /\ file' = CloseOwn(c)
    /\ UNCHANGED <<uploads, added, children, aggVars, bytesTransferred,
                   started, err, startVars, invocations, cancels, stop>>
    /\ UNCHANGED leftOpen

\* MultiUpload.uploadFailed, the locked section
UploadFailed(c) ==
    /\ worker[c] = "failedLock"
    /\ IF status = NilStatus \/ finished(status)
       THEN /\ worker' = [worker EXCEPT ![c] = "done"]
            /\ file' = CloseOwn(c)
            /\ UNCHANGED <<status, events>>
       ELSE /\ status' = FailedStatus(status, err[c])
            /\ Notify(status')
            /\ worker' = [worker EXCEPT ![c] = "failedCancel"]
            /\ UNCHANGED file
    /\ UNCHANGED <<uploads, added, children, aggVars, totalBytesTransferred,
                   bytesTransferred, started, err, startVars, invocations,
                   cancels, stop>>
    /\ UNCHANGED leftOpen

\* MultiUpload.cancelUploads, called by uploadFailed
FailedCancelUploads(c) ==
    /\ worker[c] = "failedCancel"
    /\ file' = CloseFiles(children)
    /\ leftOpen' = {s \in children : file'[s] = "open"}
    /\ worker' = [worker EXCEPT ![c] = "failedRemove"]
    /\ UNCHANGED <<uploads, added, children, aggVars, totalBytesTransferred,
                   status, bytesTransferred, started, err, startVars,
                   invocations, cancels, stop, events>>

\* u.uploads.Remove(u.correlationID) at the end of uploadFinished and of
\* uploadFailed, then the worker's deferred file.Close()
WorkerRemoveMulti(c) ==
    /\ worker[c] \in {"finishedRemove", "failedRemove"}
    /\ uploads' = Remove(uploads, MultiID, children)
    /\ worker' = [worker EXCEPT ![c] = "done"]
    /\ file' = CloseOwn(c)
    /\ UNCHANGED <<added, children, aggVars, totalBytesTransferred, status,
                   bytesTransferred, started, err, startVars, invocations,
                   cancels, stop, events>>
    /\ UNCHANGED leftOpen

\* ------------------------------------------------------------------ cancel

\* AutoUploadable.cancel: Get finds the upload, `go up.cancel(code, message)`
\* is launched.  SingleUpload.cancel begins with internalCancel, a
\* MultiUpload.cancel with its locked section.
CancelCall(id) ==
    /\ id \in uploads
    /\ Len(cancels) < MaxCancels
    /\ LET k == Len(cancels) + 1
       IN  cancels' = Append(cancels,
                [target |-> id, code |-> CancelCode(k),
                 message |-> CancelMessage(k), live |-> FALSE, done |-> FALSE,
                 pc |-> IF id = MultiID THEN "lock" ELSE "close"])
    /\ UNCHANGED <<uploads, added, children, aggVars, totalBytesTransferred,
                   status, bytesTransferred, started, file, worker, err,
                   startVars, invocations, stop, events>>
    /\ UNCHANGED leftOpen

\* SingleUpload.cancel: u.internalCancel()
CancelCloseFile(k) ==
    /\ k \in DOMAIN cancels
    /\ cancels[k].pc = "close"
    /\ file' = CloseFiles({cancels[k].target})
    /\ leftOpen' = {c \in {cancels[k].target} : file'[c] = "open"}
    /\ cancels' = [cancels EXCEPT ![k].pc = "remove",
                                  ![k].live = ~finished(status)]
    /\ UNCHANGED <<uploads, added, children, aggVars, totalBytesTransferred,
                   status, bytesTransferred, started, worker, err, startVars,
                   invocations, stop, events>>

\* MultiUpload.uploadCancelled: removeChild, the locked part
CancelRemoveChild(k) ==
    /\ k \in DOMAIN cancels
    /\ cancels[k].pc = "remove"
    /\ children' = children \ {cancels[k].target}
    /\ cancels' = [cancels EXCEPT ![k].pc = "unregister"]
    /\ UNCHANGED <<uploads, added, aggVars, totalBytesTransferred, status,
                   bytesTransferred, started, file, worker, err, startVars,
                   invocations, stop, events>>
    /\ UNCHANGED leftOpen

\* MultiUpload.uploadCancelled: removeChild, the deferred Remove
CancelUnregisterChild(k) ==
    /\ k \in DOMAIN cancels
    /\ cancels[k].pc = "unregister"
    /\ uploads' = Remove(uploads, cancels[k].target, {})
    /\ cancels' = [cancels EXCEPT ![k].pc = "lock"]
    /\ UNCHANGED <<added, children, aggVars, totalBytesTransferred, status,
                   bytesTransferred, started, file, worker, err, startVars,
                   invocations, stop, events>>
    /\ UNCHANGED leftOpen

\* MultiUpload.cancel, the locked section
CancelLocked(k) ==
    /\ k \in DOMAIN cancels
    /\ cancels[k].pc = "lock"
    /\ IF status # NilStatus /\ finished(status)
       THEN /\ cancels' = [cancels EXCEPT ![k].pc = "done", ![k].done = TRUE]
            /\ UNCHANGED <<status, events>>
       ELSE /\ status' = CanceledStatus(status, cancels[k].code, cancels[k].message)
            /\ Notify(status')
            /\ cancels' = [cancels EXCEPT ![k].pc = "cancelUploads"]
    /\ UNCHANGED <<uploads, added, children, aggVars, totalBytesTransferred,
                   bytesTransferred, started, file, worker, err, startVars,
                   invocations, stop>>
    /\ UNCHANGED leftOpen

\* MultiUpload.cancel: u.cancelUploads()
CancelUploads(k) ==
    /\ k \in DOMAIN cancels
    /\ cancels[k].pc = "cancelUploads"
    /\ file' = CloseFiles(children)
    /\ leftOpen' = {c \in children : file'[c] = "open"}
    /\ cancels' = [cancels EXCEPT ![k].pc = "removeMulti"]
    /\ UNCHANGED <<uploads, added, children, aggVars, totalBytesTransferred,
                   status, bytesTransferred, started, worker, err, startVars,
                   invocations, stop, events>>

\* MultiUpload.cancel: u.uploads.Remove(u.correlationID)
CancelRemoveMulti(k) ==
    /\ k \in DOMAIN cancels
    /\ cancels[k].pc = "removeMulti"
    /\ uploads' = Remove(uploads, MultiID, children)
    /\ cancels' = [cancels EXCEPT ![k].pc = "done"]
    /\ UNCHANGED <<added, children, aggVars, totalBytesTransferred, status,
                   bytesTransferred, started, file, worker, err, startVars,
                   invocations, stop, events>>
    /\ UNCHANGED leftOpen

\* -------------------------------------------------------------------- Stop

\* Uploads.Stop(timeout): end := time.Now().Add(timeout); pending := true
StopCall(timeout) ==
    /\ stop.pc = "idle"
    /\ stop' = [pc |-> "poll", timeout |-> timeout, elapsed |-> 0, pending |-> TRUE]
    /\ UNCHANGED <<uploads, added, children, aggVars, totalBytesTransferred,
                   status, bytesTransferred, started, file, worker, err,
                   startVars, invocations, cancels, events>>
    /\ UNCHANGED leftOpen

\* one turn of `for pending && time.Now().Before(end)`: the registry is
\* polled and, if an upload is pending, Stop sleeps for PollSeconds
StopPoll ==
    /\ stop.pc = "poll"
    /\ IF stop.pending /\ stop.elapsed < stop.timeout
       THEN IF hasPendingUploads
            THEN stop' = [stop EXCEPT !.elapsed = @ + PollSeconds]
            ELSE stop' = [stop EXCEPT !.pending = FALSE]
       ELSE stop' = [stop EXCEPT !.pc = "cancel"]
    /\ UNCHANGED <<uploads, added, children, aggVars, totalBytesTransferred,
                   status, bytesTransferred, started, file, worker, err,
                   startVars, invocations, cancels, events>>
    /\ UNCHANGED leftOpen

\* a Stop that cancels the registered uploads whatever the polling found
StopCancelUnconditional ==
    /\ stop.pc = "cancel"
    /\ stop' = [stop EXCEPT !.pc = "done"]
    /\ IF MultiID \in uploads
       THEN /\ file' = CloseFiles(children)
            /\ leftOpen' = {c \in children : file'[c] = "open"}
       ELSE UNCHANGED <<file, leftOpen>>
    /\ UNCHANGED <<uploads, added, children, aggVars, totalBytesTransferred,
                   status, bytesTransferred, started, worker, err, startVars,
                   invocations, cancels, events>>

\* `if pending`: cancelUploads of every MultiUpload still registered
StopCancel ==
    /\ stop.pc = "cancel"
    /\ stop' = [stop EXCEPT !.pc = "done"]
    /\ IF stop.pending /\ MultiID \in uploads
       THEN /\ file' = CloseFiles(children)
            /\ leftOpen' = {c \in children : file'[c] = "open"}
       ELSE UNCHANGED <<file, leftOpen>>
    /\ UNCHANGED <<uploads, added, children, aggVars, totalBytesTransferred,
                   status, bytesTransferred, started, worker, err, startVars,
                   invocations, cancels, events>>

\* ------------------------------------------------------- the ring buffer

\* the zero value of an element slot
Nil == 0

\* newRingBuffer: size + 1 slots, one of them always unused
newRingBuffer(size) ==
    [elements |-> [i \in 0..size |-> Nil], start |-> 0, end |-> 0]

\* len(buf.elements)
Slots(b) == Cardinality(DOMAIN b.elements)

\* ringBuffer.empty
empty(b) == b.start = b.end

\* a get that leaves the element it returns in the buffer
getKeepsElement(b) ==
    IF empty(b) THEN [e |-> Nil, ok |-> FALSE, buf |-> b]
    ELSE [e |-> b.elements[b.start], ok |-> TRUE, buf |-> b]

\* ringBuffer.get: the element at the beginning, if there is one
get(b) ==
    IF empty(b) THEN [e |-> Nil, ok |-> FALSE, buf |-> b]
    ELSE [e |-> b.elements[b.start], ok |-> TRUE,
          buf |-> [b EXCEPT !.start = (b.start + 1) % Slots(b)]]

\* a put that never moves the beginning of the buffer
putElementKeepsStart(b, e) ==
    [b EXCEPT !.elements[b.end] = e, !.end = (b.end + 1) % Slots(b)]

\* a put that leaves a full buffer as it is
putElementUnlessFull(b, e) ==
    IF (b.end + 1) % Slots(b) = b.start THEN b
    ELSE [b EXCEPT !.elements[b.end] = e, !.end = (b.end + 1) % Slots(b)]

\* the body of put's loop: store e at the end, and when the end catches up
\* with the beginning move the beginning on
putElement(b, e) ==
    LET next == (b.end + 1) % Slots(b)
    IN  [elements |-> [b.elements EXCEPT ![b.end] = e],
         start |-> IF next = b.start THEN (b.start + 1) % Slots(b)
                   ELSE b.start,
         end |-> next]

\* ringBuffer.put(elements...)
RECURSIVE put(_, _)
put(b, es) ==
    IF es = << >> THEN b ELSE put(putElement(b, Head(es)), Tail(es))

\* a ring buffer of some size, newly created
InitRing ==
    /\ capacity \in 0..MaxCapacity
    /\ ring = newRingBuffer(capacity)
    /\ ringPuts = 0
    /\ ringDrained = << >>
    /\ ringEmptySeen = FALSE

\* no ring buffer is under test
NoRing ==
    /\ capacity = 0
    /\ ring = newRingBuffer(0)
    /\ ringPuts = 0
    /\ ringDrained = << >>
    /\ ringEmptySeen = FALSE

\* put the next n items, before anything has been taken out
RingPut(n) ==
    /\ ringDrained = << >> /\ ~ringEmptySeen
    /\ ringPuts + n <= MaxPuts
    /\ ring' = put(ring, [i \in 1..n |-> ringPuts + i])
    /\ ringPuts' = ringPuts + n
    /\ UNCHANGED <<capacity, ringDrained, ringEmptySeen>>

\* get once more, until get has reported the buffer empty
RingGet ==
    /\ ~ringEmptySeen
    /\ LET r == get(ring)
       IN  /\ ring' = r.buf
           /\ IF r.ok
              THEN /\ ringDrained' = Append(ringDrained, r.e)
                   /\ UNCHANGED ringEmptySeen
              ELSE /\ ringEmptySeen' = TRUE
                   /\ UNCHANGED ringDrained
    /\ UNCHANGED <<capacity, ringPuts>>

\* ------------------------------------------------- the status events consumer

Producers == 1..MaxProducers

\* newStatusEventsConsumer(QueueSize), not yet started
InitQueue ==
    /\ buf = newRingBuffer(QueueSize)
    /\ closed = FALSE
    /\ condL = "free"
    /\ loop = "idle"
    /\ adding = [p \in Producers |-> "idle"]
    /\ stopping = "idle"
    /\ addCount = 0
    /\ consumed = << >>
    /\ overwritten = {}
    /\ stopCalls = 0

\* a Broadcast that wakes nobody
BroadcastLost(l) == l

\* cond.Broadcast: a goroutine in cond.Wait goes on to lock cond.L again
Broadcast(l) == IF l = "wait" THEN "lock" ELSE l

\* statusEventsConsumer.start: `go q.eventLoop(consume)`
QueueStart ==
    /\ loop = "idle"
    /\ loop' = "lock"
    /\ UNCHANGED <<buf, closed, condL, adding, stopping, addCount, consumed,
                   overwritten, stopCalls>>

\* eventLoop in get: cond.L.Lock(), on entry or on return from cond.Wait
ConsumerLock ==
    /\ loop = "lock"
    /\ condL = "free"
    /\ condL' = "consumer"
    /\ loop' = "locked"
    /\ UNCHANGED <<buf, closed, adding, stopping, addCount, consumed,
                   overwritten, stopCalls>>

\* get under the lock: wait while the buffer is empty and the consumer open,
\* give up when closed, else take the oldest event; eventLoop then calls
\* consume with it, the lock released
ConsumerGet ==
    /\ loop = "locked"
    /\ condL' = "free"
    /\ IF empty(buf) /\ ~closed
       THEN /\ loop' = "wait"
            /\ UNCHANGED <<buf, consumed>>
       ELSE IF closed
       THEN /\ loop' = "exited"
            /\ UNCHANGED <<buf, consumed>>
       ELSE /\ buf' = get(buf).buf
            /\ consumed' = Append(consumed, get(buf).e)
            /\ loop' = "consume"
    /\ UNCHANGED <<closed, adding, stopping, addCount, overwritten, stopCalls>>

\* the consume callback returns and eventLoop calls get again
ConsumeReturns ==
    /\ loop = "consume"
    /\ loop' = "lock"
    /\ UNCHANGED <<buf, closed, condL, adding, stopping, addCount, consumed,
                   overwritten, stopCalls>>

\* the adds begun and not yet finished
AddsInProgress == Cardinality({p \in Producers : adding[p] = "locked"})

\* statusEventsConsumer.add: cond.L.Lock()
AddLock(p) ==
    /\ adding[p] = "idle"
    /\ addCount + AddsInProgress < MaxAdds
    /\ condL = "free"
    /\ condL' = "add"
    /\ adding' = [adding EXCEPT ![p] = "locked"]
    /\ UNCHANGED <<buf, closed, loop, stopping, addCount, consumed,
                   overwritten, stopCalls>>

\* statusEventsConsumer.add under the lock: put, Broadcast, Unlock
AddPut(p) ==
    /\ adding[p] = "locked"
    /\ buf' = put(buf, <<addCount + 1>>)
    /\ addCount' = addCount + 1
    /\ overwritten' = IF empty(buf) \/ buf'.start = buf.start THEN overwritten
                      ELSE overwritten \cup {buf.elements[buf.start]}
    /\ loop' = Broadcast(loop)
    /\ condL' = "free"
    /\ adding' = [adding EXCEPT ![p] = "idle"]
    /\ UNCHANGED <<closed, stopping, consumed, stopCalls>>

\* statusEventsConsumer.stop: cond.L.Lock()
QueueStopLock ==
    /\ stopping = "idle"
    /\ stopCalls < MaxQueueStops
    /\ condL = "free"
    /\ condL' = "stop"
    /\ stopping' = "locked"
    /\ UNCHANGED <<buf, closed, loop, adding, addCount, consumed, overwritten,
                   stopCalls>>

\* statusEventsConsumer.stop under the lock: closed = true, Broadcast, Unlock
QueueStopClose ==
    /\ stopping = "locked"
    /\ closed' = TRUE
    /\ loop' = Broadcast(loop)
    /\ condL' = "free"
    /\ stopping' = "idle"
    /\ stopCalls' = stopCalls + 1
    /\ UNCHANGED <<buf, adding, addCount, consumed, overwritten>>

\* ---------------------------------------------------- the periodic executor

\* a nil *time.Time
NoTime == -1

\* the instant at which NewPeriodicExecutor is called
Epoch == 1

\* the values of from: nil, in the past, in the future
FromTimes == {NoTime, Epoch - 1, Epoch + 1}

\* the values of to: nil, in the past, in the future
ToTimes == {NoTime, Epoch - 1, Epoch + 1, Epoch + 2}

\* a start of the from timer's callback before from is reached
FromDueAtOnce == fromTimer = "pending"

\* time.AfterFunc(time.Until(*from), ...): the timer is due
FromDue == fromTimer = "pending" /\ now >= from

\* time.AfterFunc(time.Until(*to), ...): the timer is due
ToDue == toTimer = "pending" /\ now >= to

\* startTicker's effect on the executor: a ticker, and a goroutine that
\* invokes the task at once
StartTicker ==
    /\ ticker' = "set"
    /\ tickPending' = FALSE
    /\ routine' = "task"
    /\ startedAt' = now
    /\ taskTimes' = Append(taskTimes, now)

\* NewPeriodicExecutor(from, to, period, task) at Epoch: without from the
\* ticker is started in the constructor.  The caller passes from <= to.
InitExecutor ==
    /\ now = Epoch
    /\ from \in FromTimes
    /\ to \in ToTimes
    /\ (from # NoTime /\ to # NoTime) => from <= to
    /\ fromTimer = IF from = NoTime THEN "nil" ELSE "pending"
    /\ toTimer = IF to = NoTime THEN "nil" ELSE "pending"
    /\ fromCall = "none"
    /\ toCall = "none"
    /\ ticker = IF from = NoTime THEN "set" ELSE "nil"
    /\ tickPending = FALSE
    /\ mutex = "free"
    /\ routine = IF from = NoTime THEN "task" ELSE "none"
    /\ stopPc = "idle"
    /\ stopsReturned = 0
    /\ startedAt = IF from = NoTime THEN Epoch ELSE NoTime
    /\ taskTimes = IF from = NoTime THEN <<Epoch>> ELSE << >>

\* no periodic executor exists
NoExecutor ==
    /\ now = Epoch
    /\ from = NoTime
    /\ to = NoTime
    /\ fromTimer = "nil"
    /\ toTimer = "nil"
    /\ fromCall = "none"
    /\ toCall = "none"
    /\ ticker = "nil"
    /\ tickPending = FALSE
    /\ mutex = "free"
    /\ routine = "none"
    /\ stopPc = "idle"
    /\ stopsReturned = 0
    /\ startedAt = NoTime
    /\ taskTimes = << >>

\* the clock moves on, once the timers that are due have fired and their
\* callbacks have run as far as they can; the ticker sends a tick into
\* ticker.C every period, where one tick at most waits
Advance ==
    /\ now < MaxTime
    /\ ~FromDue /\ ~ToDue
    /\ ~(mutex = "free" /\ (fromCall = "lock" \/ toCall = "lock"))
    /\ now' = now + 1
    /\ tickPending' = \/ tickPending
                      \/ /\ ticker = "set"
                         /\ (now' - startedAt) % TickPeriod = 0
    /\ UNCHANGED <<from, to, fromTimer, toTimer, fromCall, toCall, ticker,
                   mutex, routine, stopPc, stopsReturned, startedAt,
                   taskTimes>>

\* the from timer fires: its callback runs in a goroutine of its own
FromFires ==
    /\ FromDue
    /\ fromTimer' = "fired"
    /\ fromCall' = "lock"
    /\ UNCHANGED <<now, from, to, toTimer, toCall, ticker, tickPending, mutex,
                   routine, stopPc, stopsReturned, startedAt, taskTimes>>

\* the to timer fires
ToFires ==
    /\ ToDue
    /\ toTimer' = "fired"
    /\ toCall' = "lock"
    /\ UNCHANGED <<now, from, to, fromTimer, fromCall, ticker, tickPending,
                   mutex, routine, stopPc, stopsReturned, startedAt,
                   taskTimes>>

\* the from timer's callback: startTicker under the mutex
FromCallback ==
    /\ fromCall = "lock"
    /\ mutex = "free"
    /\ StartTicker
    /\ fromCall' = "done"
    /\ UNCHANGED <<now, from, to, fromTimer, toTimer, toCall, mutex, stopPc,
                   stopsReturned>>

\* the to timer's callback: stopTicker locks the mutex and, with a ticker,
\* goes on to send on done
ToCallback ==
    /\ toCall = "lock"
    /\ mutex = "free"
    /\ IF ticker = "set"
       THEN toCall' = "send" /\ mutex' = "to"
       ELSE toCall' = "done" /\ UNCHANGED mutex
    /\ UNCHANGED <<now, from, to, fromTimer, toTimer, fromCall, ticker,
                   tickPending, routine, stopPc, stopsReturned, startedAt,
                   taskTimes>>

\* the goroutine's select receives from done, from the to timer's
\* stopTicker, which unlocks and returns
ToStopsRoutine ==
    /\ toCall = "send"
    /\ routine = "select"
    /\ routine' = "defer"
    /\ toCall' = "done"
    /\ mutex' = "free"
    /\ UNCHANGED <<now, from, to, fromTimer, toTimer, fromCall, ticker,
                   tickPending, stopPc, stopsReturned, startedAt, taskTimes>>

\* a task invocation returns and the goroutine selects
TaskReturns ==
    /\ routine = "task"
    /\ routine' = "select"
    /\ UNCHANGED <<now, from, to, fromTimer, toTimer, fromCall, toCall, ticker,
                   tickPending, mutex, stopPc, stopsReturned, startedAt,
                   taskTimes>>

\* a select that invokes the task and leaves the tick in ticker.C
RoutineTickKeepsTick ==
    /\ routine = "select"
    /\ tickPending
    /\ routine' = "task"
    /\ taskTimes' = Append(taskTimes, now)
    /\ UNCHANGED <<now, from, to, fromTimer, toTimer, fromCall, toCall, ticker,
                   tickPending, mutex, stopPc, stopsReturned, startedAt>>

\* the goroutine's select receives a tick and invokes the task
RoutineTick ==
    /\ routine = "select"
    /\ tickPending
    /\ tickPending' = FALSE
    /\ routine' = "task"
    /\ taskTimes' = Append(taskTimes, now)
    /\ UNCHANGED <<now, from, to, fromTimer, toTimer, fromCall, toCall, ticker,
                   mutex, stopPc, stopsReturned, startedAt>>

\* the goroutine's deferred function: e.ticker = nil under the mutex
RoutineDeferred ==
    /\ routine = "defer"
    /\ mutex = "free"
    /\ ticker' = "nil"
    /\ routine' = "exited"
    /\ UNCHANGED <<now, from, to, fromTimer, toTimer, fromCall, toCall,
                   tickPending, mutex, stopPc, stopsReturned, startedAt,
                   taskTimes>>

\* PeriodicExecutor.Stop is called
StopExecutor ==
    /\ stopPc = "idle"
    /\ stopsReturned < MaxExecutorStops
    /\ stopPc' = "lock"
    /\ UNCHANGED <<now, from, to, fromTimer, toTimer, fromCall, toCall, ticker,
                   tickPending, mutex, routine, stopsReturned, startedAt,
                   taskTimes>>

\* Stop's stopTicker locks the mutex and, with a ticker, goes on to send on
\* done
StopTicker ==
    /\ stopPc = "lock"
    /\ mutex = "free"
    /\ IF ticker = "set"
       THEN stopPc' = "send" /\ mutex' = "stop"
       ELSE stopPc' = "timers" /\ UNCHANGED mutex
    /\ UNCHANGED <<now, from, to, fromTimer, toTimer, fromCall, toCall, ticker,
                   tickPending, routine, stopsReturned, startedAt, taskTimes>>

\* the goroutine's select receives from done, from Stop's stopTicker, which
\* unlocks and returns
StopStopsRoutine ==
    /\ stopPc = "send"
    /\ routine = "select"
    /\ routine' = "defer"
    /\ stopPc' = "timers"
    /\ mutex' = "free"
    /\ UNCHANGED <<now, from, to, fromTimer, toTimer, fromCall, toCall, ticker,
                   tickPending, stopsReturned, startedAt, taskTimes>>

\* time.Timer.Stop and the field set to nil
StoppedTimer(t) ==
    IF t = "pending" THEN "stopped" ELSE IF t = "fired" THEN "cleared" ELSE t

\* Stop under the mutex again: both timers stopped and forgotten; Stop
\* returns
StopTimers ==
    /\ stopPc = "timers"
    /\ mutex = "free"
    /\ fromTimer' = StoppedTimer(fromTimer)
    /\ toTimer' = StoppedTimer(toTimer)
    /\ stopPc' = "idle"
    /\ stopsReturned' = stopsReturned + 1
    /\ UNCHANGED <<now, from, to, fromCall, toCall, ticker, tickPending, mutex,
                   routine, startedAt, taskTimes>>

\* ------------------------------------------------------ the trigger operation

\* AccessMode values
ModeNA == "na"
ModeStrict == "strict"
ModeLax == "lax"
ModeScoped == "scoped"

Modes == {ModeNA, ModeStrict, ModeLax, ModeScoped}

\* globs and file names, as sequences of characters: "", "*.t", "a.t",
\* "d/a.t"
GlobNone == << >>
GlobAll == <<"*", ".", "t">>
GlobOne == <<"a", ".", "t">>
GlobDir == <<"d", "/", "a", ".", "t">>

Globs == {GlobNone, GlobAll, GlobOne, GlobDir}

\* the values of the configured glob
ConfiguredGlobs == {GlobNone, GlobAll}

\* the values of options["force"]; "" when the key is absent
ForceValues == {"", "true", "True"}

\* a call's options: whether upload.files is present, its value, and force
Options ==
    {o \in [override : BOOLEAN, files : Globs, force : ForceValues] :
        ~o.override => o.files = GlobNone}

\* the options of calls that leave the glob to the configuration
PlainOptions == {o \in Options : ~o.override}

\* the correlation ids of trigger calls
TriggerIDs == {<<"a">>, <<"b">>}

\* the files that exist, in the order of filepath.Glob
Paths == <<"a.t", "b.t", "c.t">>

\* the lists of paths filepath.Glob may return
FileLists == {SubSeq(Paths, 1, n) : n \in 0..MaxFiles}

ErrNotPermitted == "uploading is not permitted"
ErrNotSpecified == "upload files not specified"
ErrOngoing == "there is an ongoing upload"

\* filepath.Match for patterns of '*', '?' and literal characters: '*'
\* matches any run of characters other than the separator
RECURSIVE Match(_, _)
Match(pattern, name) ==
    IF pattern = << >> THEN name = << >>
    ELSE IF Head(pattern) = "*"
    THEN \E k \in 0..Len(name) :
            /\ \A i \in 1..k : name[i] # "/"
            /\ Match(Tail(pattern), SubSeq(name, k + 1, Len(name)))
    ELSE IF name = << >> THEN FALSE
    ELSE IF Head(pattern) = "?"
    THEN Head(name) # "/" /\ Match(Tail(pattern), Tail(name))
    ELSE Head(pattern) = Head(name) /\ Match(Tail(pattern), Tail(name))

\* an isGlobUploadPermitted whose strict mode permits every glob
isGlobUploadPermittedLoose(m, configured, glob) ==
    CASE m = ModeLax -> TRUE
      [] m = ModeStrict -> TRUE
      [] m = ModeScoped -> Match(configured, glob)
      [] OTHER -> FALSE

\* FileUpload.isGlobUploadPermitted
isGlobUploadPermitted(m, configured, glob) ==
    CASE m = ModeLax -> TRUE
      [] m = ModeStrict -> glob = configured
      [] m = ModeScoped -> Match(configured, glob)
      [] OTHER -> FALSE

\* fmt.Sprintf("%d", i) as characters
RECURSIVE Itoa(_)
Itoa(i) ==
    LET digit == <<"0", "1", "2", "3", "4", "5", "6", "7", "8", "9">>
    IN  IF i < 10 THEN <<digit[i + 1]>>
        ELSE Itoa(i \div 10) \o <<digit[(i % 10) + 1]>>

\* fmt.Sprintf("%s#%d", correlationID, i)
ChildID(correlationID, i) == correlationID \o <<"#">> \o Itoa(i)

\* Uploads.hasPendingUploads over the feature's registry
HasPending(reg, up) ==
    \E id \in DOMAIN reg : reg[id].index = 0 /\ reg[id].owner \in up

\* DoTrigger up to the single-upload check: the glob to use, or the error
Resolve(o) ==
    LET permitted == ~o.override
                     \/ isGlobUploadPermitted(mode, filesGlob, o.files)
        glob == IF o.override THEN o.files ELSE filesGlob
        single == singleUpload /\ o.force # "true"
    IN  IF ~permitted THEN [err |-> ErrNotPermitted, glob |-> glob]
        ELSE IF glob = GlobNone THEN [err |-> ErrNotSpecified, glob |-> glob]
        ELSE IF single /\ HasPending(registry, uploading)
        THEN [err |-> ErrOngoing, glob |-> glob]
        ELSE [err |-> "", glob |-> glob]

\* before the first call of DoTrigger
NoCall ==
    [err |-> "",
     options |-> [override |-> FALSE, files |-> GlobNone, force |-> ""]]

\* a FileUpload with some mode, glob and singleUpload setting, and an empty
\* registry
InitFileUpload ==
    /\ mode \in Modes
    /\ filesGlob \in ConfiguredGlobs
    /\ singleUpload \in BOOLEAN
    /\ registry = << >>
    /\ uploading = {}
    /\ requests = {}
    /\ triggers = << >>
    /\ lastCall = NoCall

\* no trigger operation is under test
NoFileUpload ==
    /\ mode = ModeNA
    /\ filesGlob = GlobNone
    /\ singleUpload = FALSE
    /\ registry = << >>
    /\ uploading = {}
    /\ requests = {}
    /\ triggers = << >>
    /\ lastCall = NoCall

\* the trigger operations are handled one at a time
NoCallInProgress == \A k \in DOMAIN triggers : triggers[k].pc = "done"

\* DoTrigger(id, o) is called and runs up to the single-upload check
DoTriggerCheck(id, o) ==
    /\ NoCallInProgress
    /\ Resolve(o).err = "" => Len(triggers) < MaxTriggers
    /\ lastCall' = [err |-> Resolve(o).err, options |-> o]
    /\ triggers' = IF Resolve(o).err = ""
                   THEN Append(triggers,
                               [pc |-> "glob", id |-> id,
                                glob |-> Resolve(o).glob,
                                files |-> << >>, next |-> 1])
                   ELSE triggers
    /\ UNCHANGED <<mode, filesGlob, singleUpload, registry, uploading,
                   requests>>

\* DoTrigger goes on: filepath.Glob yields files and UploadFiles calls
\* AddMulti, which creates the aggregate
DoTriggerGlob(k, files) ==
    /\ k \in DOMAIN triggers
    /\ triggers[k].pc = "glob"
    /\ triggers' = [triggers EXCEPT ![k].pc = "add", ![k].files = files]
    /\ UNCHANGED <<mode, filesGlob, singleUpload, registry, uploading,
                   requests, lastCall>>

\* AddMulti's loop: AddSingle registers the next child of call k
AddSingle(k) ==
    /\ k \in DOMAIN triggers
    /\ triggers[k].pc = "add"
    /\ triggers[k].next <= Len(triggers[k].files)
    /\ LET id == ChildID(triggers[k].id, triggers[k].next)
           u == [owner |-> k, index |-> triggers[k].next]
       IN  registry' = [x \in DOMAIN registry \cup {id} |->
                           IF x = id THEN u ELSE registry[x]]
    /\ triggers' = [triggers EXCEPT ![k].next = @ + 1]
    /\ UNCHANGED <<mode, filesGlob, singleUpload, uploading, requests,
                   lastCall>>

\* AddMulti registers the aggregate of call k and returns; UploadFiles
\* starts one sendUploadRequest goroutine per child and DoTrigger returns
UploadFiles(k) ==
    /\ k \in DOMAIN triggers
    /\ triggers[k].pc = "add"
    /\ triggers[k].next > Len(triggers[k].files)
    /\ LET id == triggers[k].id
           files == triggers[k].files
       IN  /\ registry' = [x \in DOMAIN registry \cup {id} |->
                             IF x = id THEN [owner |-> k, index |-> 0]
                             ELSE registry[x]]
           /\ requests' = requests \cup
                 {[owner |-> k, id |-> ChildID(id, i), path |-> files[i],
                   sent |-> FALSE] : i \in 1..Len(files)}
    /\ triggers' = [triggers EXCEPT ![k].pc = "done"]
    /\ UNCHANGED <<mode, filesGlob, singleUpload, uploading, lastCall>>

\* sendUploadRequest hands the request message to the client
SendUploadRequest(r) ==
    /\ r \in requests
    /\ ~r.sent
    /\ requests' = (requests \ {r}) \cup {[r EXCEPT !.sent = TRUE]}
    /\ UNCHANGED <<mode, filesGlob, singleUpload, registry, uploading,
                   triggers, lastCall>>

\* a start of a child of aggregate k that is requested and registered: the
\* aggregate's status becomes UPLOADING
AggregateStarts(k) ==
    /\ k \notin uploading
    /\ \E r \in requests :
          /\ r.owner = k /\ r.sent
          /\ r.id \in DOMAIN registry
          /\ registry[r.id].owner = k
    /\ uploading' = uploading \cup {k}
    /\ UNCHANGED <<mode, filesGlob, singleUpload, registry, requests,
                   triggers, lastCall>>

\* the ids of the children aggregate k was created with
ChildIDs(k) ==
    {ChildID(triggers[k].id, i) : i \in 1..Len(triggers[k].files)}

\* aggregate k reaches a terminal state: the children in ended have called
\* removeChild, which is Remove of their ids, and the aggregate calls Remove
\* of its correlation id, which deletes the entry found there and the ids
\* of that entry's children
AggregateEnds(k, ended) ==
    /\ k \in uploading
    /\ ended \subseteq 1..Len(triggers[k].files)
    /\ uploading' = uploading \ {k}
    /\ LET id == triggers[k].id
           found == IF id \in DOMAIN registry
                    THEN {id} \cup ChildIDs(registry[id].owner)
                    ELSE {}
           gone == found \cup {ChildID(id, i) : i \in ended}
       IN  registry' = [x \in DOMAIN registry \ gone |-> registry[x]]
    /\ UNCHANGED <<mode, filesGlob, singleUpload, requests, triggers,
                   lastCall>>

\* ------------------------------------------------------ the start operation

\* response statuses
StatusNoContent == 204
StatusNotFound == 404
StatusInternalServerError == 500

\* a correlation id that no trigger has produced
UnknownID == MaxChildren + 1

\* no start operation is being handled
IdleOp == [id |-> NoID, valid |-> TRUE, pc |-> "idle", status |-> 0]

\* no activate or Disconnect call yet
NoOp == [name |-> "none", pc |-> "idle", from |-> NoTime, to |-> NoTime,
         status |-> 0]

\* no operation is handled and the feature has no executor
NoControl ==
    /\ startOp = IdleOp
    /\ featureState = [active |-> FALSE, startTime |-> NoTime, endTime |-> NoTime]
    /\ executor = "nil"
    /\ uMutex = "free"
    /\ op = NoOp
    /\ published = << >>
    /\ steps = << >>
    /\ gotUID = FALSE

\* the response of the start operation to what Get found and what the
\* upload's start returned, with every failure answered as a success
StartResponseAlwaysOK(found, failed) == StatusNoContent

\* the response of the start operation to what Get found and what the
\* upload's start returned
StartResponse(found, failed) ==
    IF ~found THEN StatusNotFound
    ELSE IF failed THEN StatusInternalServerError
    ELSE StatusNoContent

\* AutoUploadable.start with an id that Get does not find
StartNotFound(id, v) ==
    /\ startOp.pc = "idle"
    /\ id \notin uploads
    /\ startOp' = [id |-> id, valid |-> v, pc |-> "idle",
                   status |-> StartResponse(FALSE, FALSE)]
    /\ UNCHANGED uploadVars

\* AutoUploadable.start with the id of the aggregate: MultiUpload.start
\* returns its error
StartMulti(v) ==
    /\ startOp.pc = "idle"
    /\ MultiID \in uploads
    /\ startOp' = [id |-> MultiID, valid |-> v, pc |-> "idle",
                   status |-> StartResponse(TRUE, TRUE)]
    /\ UNCHANGED uploadVars

\* AutoUploadable.start with the id of a child: Get finds it
StartFound(c, v) ==
    /\ startOp.pc = "idle"
    /\ StartGet(c)
    /\ startOp' = [id |-> c, valid |-> v, pc |-> "call", status |-> 0]

\* the child's start runs up to its compare-and-swap; a rejection is
\* answered at once
StartChild ==
    /\ startOp.pc = "call"
    /\ StartCall(startOp.id, startOp.valid)
    /\ startOp' =
          IF startOp.valid /\ CompareAndSwapStarted(startOp.id)
          THEN [startOp EXCEPT !.pc = "started"]
          ELSE [startOp EXCEPT !.pc = "idle",
                               !.status = StartResponse(TRUE, TRUE)]

\* the child's start notifies the aggregate, launches the uploader and
\* returns nil
StartAccepted(info) ==
    /\ startOp.pc = "started"
    /\ UploadStarted(startOp.id, info)
    /\ startOp' = [startOp EXCEPT !.pc = "idle",
                                 !.status = StartResponse(TRUE, FALSE)]

\* ----------------------------------------- activate and Disconnect

StatusBadRequest == 400

\* the from and to of an activate operation
ActivateTimes == {Epoch + 1, Epoch + 2}

\* the feature after Connect: with cfg.Active the connect handler has
\* started an executor for the configured window, otherwise there is none
InitFeature ==
    /\ startOp = IdleOp
    /\ uMutex = "free"
    /\ op = NoOp
    /\ published = << >>
    /\ steps = << >>
    /\ gotUID = FALSE
    /\ \/ /\ InitExecutor
          /\ executor = "old"
          /\ featureState = [active |-> TRUE, startTime |-> from, endTime |-> to]
       \/ /\ NoExecutor
          /\ executor = "nil"
          /\ featureState = [active |-> FALSE, startTime |-> NoTime,
                      endTime |-> NoTime]

\* the task, OnTick, begins with nextUID, which takes AutoUploadable.mutex
TaskNextUID ==
    /\ routine = "task"
    /\ ~gotUID
    /\ uMutex = "free"
    /\ gotUID' = TRUE
    /\ UNCHANGED <<timerVars, featureState, executor, uMutex, op, published, steps>>

\* the task invocation returns
TaskDone ==
    /\ gotUID
    /\ TaskReturns
    /\ gotUID' = FALSE
    /\ UNCHANGED <<featureState, executor, uMutex, op, published, steps>>

\* AutoUploadable.activate(from, to) up to startExecutor
Activate(f, t) ==
    /\ op.name = "none"
    /\ IF t < f
       THEN /\ op' = [name |-> "activate", pc |-> "done", from |-> f,
                      to |-> t, status |-> StatusBadRequest]
            /\ UNCHANGED featureState
       ELSE /\ featureState' = [active |-> TRUE, startTime |-> f, endTime |-> t]
            /\ op' = [name |-> "activate", pc |-> "lock", from |-> f,
                      to |-> t, status |-> 0]
    /\ UNCHANGED <<timerVars, executor, uMutex, published, steps, gotUID>>

\* startExecutor or stopExecutor locks AutoUploadable.mutex and, with an
\* executor, calls its Stop
ExecutorLock ==
    /\ op.pc = "lock"
    /\ uMutex = "free"
    /\ uMutex' = "op"
    /\ IF executor = "nil"
       THEN /\ op' = [op EXCEPT !.pc = "stopped"]
            /\ UNCHANGED timerVars
       ELSE /\ op' = [op EXCEPT !.pc = "stop"]
            /\ StopExecutor
    /\ UNCHANGED <<featureState, executor, published, steps, gotUID>>

\* the steps of the executor's Stop
ExecutorStopTicker ==
    /\ StopTicker
    /\ UNCHANGED featureVars

ExecutorStopsRoutine ==
    /\ StopStopsRoutine
    /\ UNCHANGED featureVars

\* the executor's Stop returns to startExecutor or stopExecutor
ExecutorStopped ==
    /\ op.pc = "stop"
    /\ StopTimers
    /\ op' = [op EXCEPT !.pc = "stopped"]
    /\ UNCHANGED <<featureState, executor, uMutex, published, steps, gotUID>>

\* startExecutor creates the new executor and unlocks
ActivateCreate ==
    /\ op.name = "activate"
    /\ op.pc = "stopped"
    /\ executor' = "new"
    /\ uMutex' = "free"
    /\ op' = [op EXCEPT !.pc = "publish"]
    /\ UNCHANGED <<timerVars, featureState, published, steps, gotUID>>

\* activate sends the autoUpload property and returns nil
ActivatePublish ==
    /\ op.name = "activate"
    /\ op.pc = "publish"
    /\ published' = Append(published, featureState)
    /\ op' = [op EXCEPT !.pc = "done", !.status = StatusNoContent]
    /\ UNCHANGED <<timerVars, featureState, executor, uMutex, steps, gotUID>>

\* Disconnect is called: statusEvents.stop()
Disconnect ==
    /\ op.name = "none"
    /\ op' = [NoOp EXCEPT !.name = "disconnect", !.pc = "unsubscribe"]
    /\ steps' = Append(steps, "consumer")
    /\ UNCHANGED <<timerVars, featureState, executor, uMutex, published, gotUID>>

\* Disconnect: client.Unsubscribe(), then stopExecutor is entered
DisconnectUnsubscribe ==
    /\ op.name = "disconnect"
    /\ op.pc = "unsubscribe"
    /\ op' = [op EXCEPT !.pc = "lock"]
    /\ steps' = Append(steps, "unsubscribe")
    /\ UNCHANGED <<timerVars, featureState, executor, uMutex, published, gotUID>>

\* stopExecutor forgets the executor, unlocks and returns
DisconnectExecutor ==
    /\ op.name = "disconnect"
    /\ op.pc = "stopped"
    /\ executor' = "nil"
    /\ uMutex' = "free"
    /\ op' = [op EXCEPT !.pc = "drain"]
    /\ steps' = Append(steps, "executor")
    /\ UNCHANGED <<timerVars, featureState, published, gotUID>>

\* Disconnect: uploads.Stop(stopTimeout) returns
DisconnectDrain ==
    /\ op.name = "disconnect"
    /\ op.pc = "drain"
    /\ op' = [op EXCEPT !.pc = "close"]
    /\ steps' = Append(steps, "drain")
    /\ UNCHANGED <<timerVars, featureState, executor, uMutex, published, gotUID>>

\* Disconnect: client.Disconnect()
DisconnectClose ==
    /\ op.name = "disconnect"
    /\ op.pc = "close"
    /\ op' = [op EXCEPT !.pc = "done"]
    /\ steps' = Append(steps, "close")
    /\ UNCHANGED <<timerVars, featureState, executor, uMutex, published, gotUID>>

\* ------------------------------------------------- the locks of the engine

\* the goroutines that call into the engine
Threads == 1..MaxThreads

\* Uploads.mutex, MultiUpload.mutex, SingleUpload.mutex and the cond.L of the
\* status events consumer
Registry == "Uploads.mutex"
Aggregate == "MultiUpload.mutex"
Child == "SingleUpload.mutex"
Queue == "cond.L"

\* one step of a function: a call of k on lock l, or the call of the listener
Call(k, l) == <<[k |-> k, l |-> l]>>

\* statusEventsConsumer.add, and get, whose cond.Wait gives the lock up, and
\* stop
EventsAdd == Call("Lock", Queue) \o Call("Unlock", Queue)
EventsGet == Call("Lock", Queue) \o Call("Unlock", Queue)
EventsStop == Call("Lock", Queue) \o Call("Unlock", Queue)

\* AutoUploadable.uploadStatusUpdated, the listener of every aggregate
UploadStatusUpdated == Call("listener", Queue) \o EventsAdd

\* a locked section of MultiUpload that reports the status: uploadStarted,
\* changeProgress and the closures of cancel, uploadFailed and uploadFinished
\* call u.listener.uploadStatusUpdated before the deferred Unlock
NotifyLocked(section) ==
    Call("Lock", Aggregate) \o UploadStatusUpdated
    \o Call("Unlock", Aggregate)

\* Uploads.Get and Uploads.hasPendingUploads
UploadsGet == Call("RLock", Registry) \o Call("RUnlock", Registry)
UploadsHasPending == Call("RLock", Registry) \o Call("RUnlock", Registry)

\* MultiUpload.addChild and Uploads.AddSingle
MultiAddChild == Call("Lock", Aggregate) \o Call("Unlock", Aggregate)
UploadsAddSingle ==
    MultiAddChild \o Call("Lock", Registry) \o Call("Unlock", Registry)

\* Uploads.AddMulti with one path: AddSingle, the sizes, the aggregate
UploadsAddMulti ==
    UploadsAddSingle
    \o Call("Lock", Registry) \o Call("Unlock", Registry)
    \o Call("Lock", Registry) \o Call("Unlock", Registry)

\* MultiUpload.getChildrenIDs
MultiGetChildrenIDs == Call("RLock", Aggregate) \o Call("RUnlock", Aggregate)

\* Uploads.Remove of an aggregate's id, or of a child's
UploadsRemove(multi) ==
    Call("Lock", Registry)
    \o (IF multi THEN MultiGetChildrenIDs ELSE << >>)
    \o Call("Unlock", Registry)

\* SingleUpload.internalCancel and MultiUpload.cancelUploads with one child
SingleInternalCancel == Call("RLock", Child) \o Call("RUnlock", Child)
MultiCancelUploads ==
    Call("Lock", Aggregate) \o Call("Unlock", Aggregate)
    \o SingleInternalCancel

\* Uploads.Stop with an upload pending when the time is up
UploadsStop ==
    UploadsHasPending
    \o Call("Lock", Registry) \o MultiCancelUploads
    \o Call("Unlock", Registry)

\* a removeChild that calls Remove before it releases the aggregate
MultiRemoveChildLocked ==
    Call("Lock", Aggregate) \o UploadsRemove(FALSE)
    \o Call("Unlock", Aggregate)

\* MultiUpload.removeChild: the deferred Remove runs after the Unlock
MultiRemoveChild ==
    Call("Lock", Aggregate) \o Call("Unlock", Aggregate)
    \o UploadsRemove(FALSE)

\* MultiUpload.cancel, uploadFailed and uploadFinished on their longest paths
MultiCancel ==
    NotifyLocked("cancel") \o MultiCancelUploads \o UploadsRemove(TRUE)
MultiUploadFailed ==
    MultiRemoveChild \o NotifyLocked("uploadFailed") \o MultiCancelUploads
    \o UploadsRemove(TRUE)
MultiUploadFinished ==
    MultiRemoveChild \o NotifyLocked("uploadFinished") \o UploadsRemove(TRUE)

\* SingleUpload.cancel: internalCancel, then the parent's uploadCancelled
SingleCancel == SingleInternalCancel \o MultiRemoveChild \o MultiCancel

\* SingleUpload.start: uploadStarted; its goroutine sets u.file under the
\* child's lock, and the uploader's progress function calls changeProgress
SingleStart == NotifyLocked("uploadStarted")
SingleTransfer ==
    Call("Lock", Child) \o Call("Unlock", Child)
    \o NotifyLocked("changeProgress")

\* the operations of the engine, and the steps of each
Operations ==
    {"Get", "hasPending", "AddMulti", "Remove", "Stop", "start", "transfer",
     "finish", "fail", "cancel", "cancelChild", "add", "get", "stop"}

Code(o) ==
    CASE o = "Get" -> UploadsGet
      [] o = "hasPending" -> UploadsHasPending
      [] o = "AddMulti" -> UploadsAddMulti
      [] o = "Remove" -> UploadsRemove(TRUE)
      [] o = "Stop" -> UploadsStop
      [] o = "start" -> SingleStart
      [] o = "transfer" -> SingleTransfer
      [] o = "finish" -> MultiUploadFinished
      [] o = "fail" -> MultiUploadFailed
      [] o = "cancel" -> MultiCancel
      [] o = "cancelChild" -> SingleCancel
      [] o = "add" -> EventsAdd
      [] o = "get" -> EventsGet
      [] o = "stop" -> EventsStop
      [] OTHER -> << >>

\* the locks held after the first i steps of a function
Depth(code, i) ==
    Cardinality({j \in 1..i : code[j].k \in {"Lock", "RLock"}})
    - Cardinality({j \in 1..i : code[j].k \in {"Unlock", "RUnlock"}})

\* the sections of a function: the stretches of its steps from holding no
\* lock to holding no lock again.  A goroutine between two sections of a
\* function is, for the locks, a goroutine that enters the second one.
Sections(code) ==
    LET ends == {i \in 1..Len(code) : Depth(code, i) = 0}
        starts == {a \in {1} \cup {e + 1 : e \in ends} : a <= Len(code)}
        end(a) == CHOOSE b \in ends :
                      b >= a /\ \A d \in ends : d >= a => b <= d
    IN  {SubSeq(code, a, end(a)) : a \in starts}

AllSections == UNION {Sections(Code(o)) : o \in Operations}

\* a goroutine outside every section
IdleThread == [code |-> << >>, pc |-> 0]

NoThreads == threads = [t \in Threads |-> IdleThread]

\* the step goroutine r is about to take, if it is in a section
Busy(r) == r.code # << >>
NextCall(r) == r.code[r.pc]

\* the calls goroutine r has made of k on lock l
Calls(r, k, l) ==
    Cardinality({i \in 1..(r.pc - 1) : r.code[i] = [k |-> k, l |-> l]})

\* goroutine r holds lock l for writing, for reading
HoldsLock(r, l) == Calls(r, "Lock", l) > Calls(r, "Unlock", l)
HoldsRLock(r, l) == Calls(r, "RLock", l) > Calls(r, "RUnlock", l)
Held(r) == {l \in {Registry, Aggregate, Child, Queue} :
               HoldsLock(r, l) \/ HoldsRLock(r, l)}

\* sync.RWMutex: goroutine u keeps goroutine r from its next step: Lock waits
\* for the writer and the readers, RLock for the writer and for a Lock that
\* is waiting
Blocks(u, r) ==
    /\ Busy(r) /\ Busy(u) /\ u # r
    /\ LET c == NextCall(r)
       IN  \/ /\ c.k = "Lock"
              /\ HoldsLock(u, c.l) \/ HoldsRLock(u, c.l)
           \/ /\ c.k = "RLock"
              /\ \/ HoldsLock(u, c.l)
                 \/ NextCall(u) = [k |-> "Lock", l |-> c.l]

\* a goroutine enters a section of some operation
Begin(t, code) ==
    /\ ~Busy(threads[t])
    /\ threads' = [threads EXCEPT ![t] = [code |-> code, pc |-> 1]]

\* a goroutine past its next step: it leaves the section after the last one
Returns(r) ==
    IF r.pc = Len(r.code) THEN IdleThread ELSE [r EXCEPT !.pc = @ + 1]

\* a goroutine takes its next step; the Unlock of an RWMutex lets in, before
\* the next writer, the readers that have waited in RLock
Step(t) ==
    /\ Busy(threads[t])
    /\ \A u \in Threads \ {t} : ~Blocks(threads[u], threads[t])
    /\ LET c == NextCall(threads[t])
           readers == IF c.k # "Unlock" THEN {}
                      ELSE {u \in Threads \ {t} :
                              /\ Busy(threads[u])
                              /\ NextCall(threads[u]) =
                                    [k |-> "RLock", l |-> c.l]}
       IN  threads' = [u \in Threads |->
                         IF u = t \/ u \in readers THEN Returns(threads[u])
                         ELSE threads[u]]

\* ------------------------------------------------------- the specification

\* the upload engine alone: no ring buffer or events consumer under test
Init ==
    InitUploads /\ NoRing /\ InitQueue /\ NoExecutor /\ NoFileUpload /\ NoControl
    /\ NoThreads

notUploadVars ==
    <<ringVars, queueVars, timerVars, triggerVars, controlVars,
      featureVars, lockVars>>
notRingVars ==
    <<uploadVars, queueVars, timerVars, triggerVars, controlVars,
      featureVars, lockVars>>
notQueueVars ==
    <<uploadVars, ringVars, timerVars, triggerVars, controlVars,
      featureVars, lockVars>>
notTimerVars ==
    <<uploadVars, ringVars, queueVars, triggerVars, controlVars,
      featureVars, lockVars>>
notControlVars ==
    <<ringVars, queueVars, timerVars, triggerVars, featureVars, lockVars>>
notFeatureVars ==
    <<uploadVars, ringVars, queueVars, triggerVars, controlVars,
      lockVars>>
notLockVars ==
    <<uploadVars, ringVars, queueVars, timerVars, triggerVars,
      controlVars, featureVars>>
notTriggerVars ==
    <<uploadVars, ringVars, queueVars, timerVars, controlVars,
      featureVars, lockVars>>

\* the files of one trigger are taken with their sizes ascending: non-empty
\* files of one trigger differ in size, and a run with the sizes in another
\* order is this run with the children renamed
Trigger ==
    \E n \in 1..MaxChildren, st \in [Children -> StatResults] :
        /\ \A i \in Children : i > n => st[i] = 0
        /\ \A i, j \in 1..n :
              i < j /\ st[i] # StatError /\ st[j] # StatError
                  => st[i] < st[j] \/ st[i] + st[j] = 0
        /\ AddMulti(n, st)
        /\ UNCHANGED notUploadVars

StartStep ==
    \/ \E c \in Children : StartGet(c) /\ UNCHANGED notUploadVars
    \/ \E c \in Children, v \in BOOLEAN :
          StartCall(c, v) /\ UNCHANGED notUploadVars
    \/ \E c \in Children, i \in Infos :
          UploadStarted(c, i) /\ UNCHANGED notUploadVars

\* an uploader reports cumulative byte counts: each report exceeds the last
WorkerStep ==
    \/ \E c \in Children : WorkerOpen(c) /\ UNCHANGED notUploadVars
    \/ \E c \in Children : \E b \in ReportedBytes(childSize[c]) :
          b > bytesTransferred[c] /\ Progress(c, b) /\ UNCHANGED notUploadVars
    \/ \E c \in Children, e \in {"", ErrOpen, ErrUpload, ErrClosed} :
          RemoveChild(c, e) /\ UNCHANGED notUploadVars
    \/ \E c \in Children : UnregisterChild(c) /\ UNCHANGED notUploadVars
    \/ \E c \in Children : UploadFinished(c) /\ UNCHANGED notUploadVars
    \/ \E c \in Children : UploadFailed(c) /\ UNCHANGED notUploadVars
    \/ \E c \in Children : FailedCancelUploads(c) /\ UNCHANGED notUploadVars
    \/ \E c \in Children : WorkerRemoveMulti(c) /\ UNCHANGED notUploadVars

CancelStep ==
    \/ \E id \in {MultiID} \cup Children :
          CancelCall(id) /\ UNCHANGED notUploadVars
    \/ \E k \in 1..MaxCancels : CancelCloseFile(k) /\ UNCHANGED notUploadVars
    \/ \E k \in 1..MaxCancels : CancelRemoveChild(k) /\ UNCHANGED notUploadVars
    \/ \E k \in 1..MaxCancels :
          CancelUnregisterChild(k) /\ UNCHANGED notUploadVars
    \/ \E k \in 1..MaxCancels : CancelLocked(k) /\ UNCHANGED notUploadVars
    \/ \E k \in 1..MaxCancels : CancelUploads(k) /\ UNCHANGED notUploadVars
    \/ \E k \in 1..MaxCancels : CancelRemoveMulti(k) /\ UNCHANGED notUploadVars

StopStep ==
    \/ \E t \in 0..MaxStopTimeout : StopCall(t) /\ UNCHANGED notUploadVars
    \/ StopPoll /\ UNCHANGED notUploadVars
    \/ StopCancel /\ UNCHANGED notUploadVars

\* trigger, start and cancel operations and the workers they launch
Next == Trigger \/ StartStep \/ WorkerStep \/ CancelStep

Spec == Init /\ [][Next]_vars

\* trigger and start operations, the workers, and the graceful Stop
NextStop == Trigger \/ StartStep \/ WorkerStep \/ StopStep

SpecStop == Init /\ [][NextStop]_vars

\* a ring buffer of any size up to MaxCapacity: puts, then gets
InitRingBuffer ==
    InitUploads /\ InitRing /\ InitQueue /\ NoExecutor /\ NoFileUpload /\ NoControl
    /\ NoThreads

NextRing ==
    \/ \E n \in 1..MaxPutArgs : RingPut(n) /\ UNCHANGED notRingVars
    \/ RingGet /\ UNCHANGED notRingVars

SpecRing == InitRingBuffer /\ [][NextRing]_vars

\* a periodic executor over any window, its timers and goroutine, the clock
\* and calls of Stop
InitTimer ==
    InitUploads /\ NoRing /\ InitQueue /\ InitExecutor /\ NoFileUpload /\ NoControl
    /\ NoThreads

NextTimer ==
    \/ Advance /\ UNCHANGED notTimerVars
    \/ FromFires /\ UNCHANGED notTimerVars
    \/ ToFires /\ UNCHANGED notTimerVars
    \/ FromCallback /\ UNCHANGED notTimerVars
    \/ ToCallback /\ UNCHANGED notTimerVars
    \/ ToStopsRoutine /\ UNCHANGED notTimerVars
    \/ TaskReturns /\ UNCHANGED notTimerVars
    \/ RoutineTick /\ UNCHANGED notTimerVars
    \/ RoutineDeferred /\ UNCHANGED notTimerVars
    \/ StopExecutor /\ UNCHANGED notTimerVars
    \/ StopTicker /\ UNCHANGED notTimerVars
    \/ StopStopsRoutine /\ UNCHANGED notTimerVars
    \/ StopTimers /\ UNCHANGED notTimerVars

SpecTimer == InitTimer /\ [][NextTimer]_vars

\* the start operations of the message handler, one at a time, with the
\* uploaders they launch
StartOperation ==
    \/ \E id \in Children \cup {MultiID, UnknownID}, v \in BOOLEAN :
          StartNotFound(id, v) /\ UNCHANGED notControlVars
    \/ \E v \in BOOLEAN : StartMulti(v) /\ UNCHANGED notControlVars
    \/ \E c \in Children, v \in BOOLEAN :
          StartFound(c, v) /\ UNCHANGED notControlVars
    \/ StartChild /\ UNCHANGED notControlVars
    \/ \E i \in Infos : StartAccepted(i) /\ UNCHANGED notControlVars

NextStart ==
    \/ Trigger /\ UNCHANGED controlVars
    \/ StartOperation
    \/ WorkerStep /\ UNCHANGED controlVars

SpecStart == Init /\ [][NextStart]_vars

\* the connected feature with its executor, and one activate or Disconnect
InitActivate ==
    InitUploads /\ NoRing /\ InitQueue /\ NoFileUpload /\ InitFeature
    /\ NoThreads

NextActivate ==
    \/ Advance /\ UNCHANGED notTimerVars
    \/ FromFires /\ UNCHANGED notTimerVars
    \/ ToFires /\ UNCHANGED notTimerVars
    \/ FromCallback /\ UNCHANGED notTimerVars
    \/ ToCallback /\ UNCHANGED notTimerVars
    \/ ToStopsRoutine /\ UNCHANGED notTimerVars
    \/ RoutineTick /\ UNCHANGED notTimerVars
    \/ RoutineDeferred /\ UNCHANGED notTimerVars
    \/ TaskNextUID /\ UNCHANGED notFeatureVars
    \/ TaskDone /\ UNCHANGED notFeatureVars
    \/ \E f, t \in ActivateTimes : Activate(f, t) /\ UNCHANGED notFeatureVars
    \/ ExecutorLock /\ UNCHANGED notFeatureVars
    \/ ExecutorStopTicker /\ UNCHANGED notFeatureVars
    \/ ExecutorStopsRoutine /\ UNCHANGED notFeatureVars
    \/ ExecutorStopped /\ UNCHANGED notFeatureVars
    \/ ActivateCreate /\ UNCHANGED notFeatureVars
    \/ ActivatePublish /\ UNCHANGED notFeatureVars
    \/ Disconnect /\ UNCHANGED notFeatureVars
    \/ DisconnectUnsubscribe /\ UNCHANGED notFeatureVars
    \/ DisconnectExecutor /\ UNCHANGED notFeatureVars
    \/ DisconnectDrain /\ UNCHANGED notFeatureVars
    \/ DisconnectClose /\ UNCHANGED notFeatureVars

SpecActivate == InitActivate /\ [][NextActivate]_vars

\* the trigger operation of a FileUpload in strict mode with a configured
\* glob, called without a glob override, with the starts and ends of the
\* aggregates it registers
InitTrigger ==
    /\ InitUploads /\ NoRing /\ InitQueue /\ NoExecutor /\ InitFileUpload
    /\ NoControl /\ NoThreads
    /\ mode = ModeStrict
    /\ filesGlob = GlobAll

NextTrigger ==
    \/ \E id \in TriggerIDs, o \in PlainOptions :
          DoTriggerCheck(id, o) /\ UNCHANGED notTriggerVars
    \/ \E k \in 1..MaxTriggers, files \in FileLists :
          DoTriggerGlob(k, files) /\ UNCHANGED notTriggerVars
    \/ \E k \in 1..MaxTriggers : AddSingle(k) /\ UNCHANGED notTriggerVars
    \/ \E k \in 1..MaxTriggers : UploadFiles(k) /\ UNCHANGED notTriggerVars
    \/ \E r \in requests : SendUploadRequest(r) /\ UNCHANGED notTriggerVars
    \/ \E k \in 1..MaxTriggers : AggregateStarts(k) /\ UNCHANGED notTriggerVars
    \/ \E k \in 1..MaxTriggers, ended \in SUBSET (1..MaxFiles) :
          AggregateEnds(k, ended) /\ UNCHANGED notTriggerVars

SpecTrigger == InitTrigger /\ [][NextTrigger]_vars

\* the trigger operation of a FileUpload of any mode and configured glob,
\* called with every kind of options under one correlation id
InitAccess ==
    InitUploads /\ NoRing /\ InitQueue /\ NoExecutor /\ InitFileUpload
    /\ NoControl /\ NoThreads

NextAccess ==
    \/ \E o \in Options :
          DoTriggerCheck(<<"a">>, o) /\ UNCHANGED notTriggerVars
    \/ \E k \in 1..MaxTriggers, files \in FileLists :
          DoTriggerGlob(k, files) /\ UNCHANGED notTriggerVars
    \/ \E k \in 1..MaxTriggers : AddSingle(k) /\ UNCHANGED notTriggerVars
    \/ \E k \in 1..MaxTriggers : UploadFiles(k) /\ UNCHANGED notTriggerVars

SpecAccess == InitAccess /\ [][NextAccess]_vars

\* the status events consumer: its eventLoop, producers calling add, and stop
NextEvents ==
    \/ QueueStart /\ UNCHANGED notQueueVars
    \/ ConsumerLock /\ UNCHANGED notQueueVars
    \/ ConsumerGet /\ UNCHANGED notQueueVars
    \/ ConsumeReturns /\ UNCHANGED notQueueVars
    \/ \E p \in Producers : AddLock(p) /\ UNCHANGED notQueueVars
    \/ \E p \in Producers : AddPut(p) /\ UNCHANGED notQueueVars
    \/ QueueStopLock /\ UNCHANGED notQueueVars
    \/ QueueStopClose /\ UNCHANGED notQueueVars

SpecEvents == Init /\ [][NextEvents]_vars

\* the same, where a goroutine that can run does run and every consume
\* callback returns
SpecEventsFair ==
    /\ SpecEvents
    /\ WF_vars(ConsumerLock /\ UNCHANGED notQueueVars)
    /\ WF_vars(ConsumerGet /\ UNCHANGED notQueueVars)
    /\ WF_vars(ConsumeReturns /\ UNCHANGED notQueueVars)
    /\ WF_vars(\E p \in Producers : AddPut(p) /\ UNCHANGED notQueueVars)
    /\ WF_vars(QueueStopClose /\ UNCHANGED notQueueVars)

\* goroutines that call the operations of the registry, of the aggregate
\* and of the events consumer, step by step
NextLocks ==
    \/ \E t \in Threads, code \in AllSections :
          Begin(t, code) /\ UNCHANGED notLockVars
    \/ \E t \in Threads : Step(t) /\ UNCHANGED notLockVars

SpecLocks == Init /\ [][NextLocks]_vars

\* the same, where a goroutine whose next step is possible again and again
\* takes it: sync.Mutex hands a lock to a goroutine that has waited for it
SpecLocksFair ==
    /\ SpecLocks
    /\ \A t \in Threads : SF_vars(Step(t) /\ UNCHANGED notLockVars)

\* ------------------------------------------------------------ the properties

\* the number of emitted status events that carry `state`
CountEvents(state) ==
    Cardinality({i \in DOMAIN events : events[i].State = state})

\* the children the aggregate was created with
Created == 1..totalCount

\* C1: terminal monotonicity.  Once a status event with state SUCCESS,
\* FAILED or CANCELED has been emitted, no further status event of the
\* aggregate is emitted: a terminal event is the last event of the stream.
TerminalMonotonicity ==
    \A i \in DOMAIN events : finished(events[i]) => i = Len(events)

\* C2: progress monotonicity.  The progress values of the emitted status
\* events never decrease, and each lies in [0, 100].
ProgressMonotonicity ==
    \A i \in DOMAIN events :
        /\ events[i].Progress \in 0..100
        /\ i > 1 => events[i - 1].Progress <= events[i].Progress

\* C3: progress reaches 100 only on SUCCESS.  An emitted event carries
\* progress 100 if and only if its state is SUCCESS: no UPLOADING, FAILED or
\* CANCELED event carries 100 and every SUCCESS event does.
ProgressFullOnlyOnSuccess ==
    \A i \in DOMAIN events :
        events[i].Progress = 100 <=> events[i].State = StateSuccess

\* C4: single-flight.  Of the start calls with valid options on one child at
\* most one is accepted and at most one uploader invocation follows; a call
\* is answered "already started" only when another one was accepted, and an
\* invocation happens only for an accepted call.
SingleFlight ==
    \A c \in Children :
        /\ accepted[c] <= 1
        /\ invocations[c] <= accepted[c]
        /\ rejected[c] > 0 => accepted[c] = 1

\* one child was started twice: one call accepted and its upload invoked,
\* the other answered "already started"
SingleFlightWitness ==
    \E c \in Children :
        accepted[c] = 1 /\ rejected[c] = 1 /\ invocations[c] = 1

\* C5: external cancel of a single child.  After cancel(code, message) has
\* been called on a child while the aggregate is not terminal, and unless a
\* transfer fails for a reason of its own (the error of a read from a closed
\* handle is not such a reason), the child's handle is closed, the aggregate
\* does not become FAILED, and once the cancel has run to its end the
\* aggregate is CANCELED with that code and message.
ChildCancelEndsCanceled ==
    \A k \in DOMAIN cancels :
        ( /\ cancels[k].target \in Children
          /\ cancels[k].live
          /\ \A c \in Children : err[c] \in {"", ErrClosed} )
        => /\ leftOpen = {}
           /\ status.State # StateFailed
           /\ cancels[k].pc = "done" =>
                  /\ status.State = StateCanceled
                  /\ status.StatusCode = cancels[k].code
                  /\ status.Message = cancels[k].message

\* C6: cancellation propagation.  A cancel of the aggregate that finds it
\* not terminal sets CANCELED with the caller's code and message and an
\* endTime, exactly one CANCELED event is ever emitted, the handles of the
\* remaining children are closed, and when it has run to its end the
\* aggregate and the children it holds are out of the registry; no other
\* cancel of the aggregate acts.
CancelPropagation ==
    \A k \in DOMAIN cancels :
        ( /\ cancels[k].target = MultiID
          /\ cancels[k].pc \in {"cancelUploads", "removeMulti", "done"}
          /\ ~cancels[k].done )
        => /\ status.State = StateCanceled
           /\ status.StatusCode = cancels[k].code
           /\ status.Message = cancels[k].message
           /\ status.EndTime
           /\ CountEvents(StateCanceled) = 1
           /\ cancels[k].pc # "cancelUploads" => leftOpen = {}
           /\ cancels[k].pc = "done" =>
                  uploads \cap ({MultiID} \cup children) = {}
           /\ \A j \in DOMAIN cancels :
                  (j # k /\ cancels[j].pc = "done") => cancels[j].done

\* C7: child failure.  With no cancel requested, a child whose transfer or
\* open returned an error makes the aggregate FAILED with an endTime; the
\* uploadFailed that finds the aggregate not terminal sets the message to
\* its error text, exactly one FAILED event is ever emitted, the handles of
\* the surviving siblings are closed, and once the workers have run to their
\* end neither the aggregate nor a child is in the registry.
ChildFailure ==
    cancels = << >> =>
    \A c \in Children :
        /\ (err[c] # "" /\ worker[c] \in {"failedCancel", "failedRemove", "done"})
           => /\ status.State = StateFailed
              /\ status.EndTime
              /\ CountEvents(StateFailed) = 1
        /\ worker[c] \in {"failedCancel", "failedRemove"}
           => status.Message = err[c]
        /\ worker[c] = "failedRemove" => leftOpen = {}
        /\ ( /\ status.State = StateFailed
             /\ \A s \in Children : worker[s] \in {"idle", "done"} )
           => uploads = {}

\* every child the aggregate was created with has returned from a
\* successful transfer and has left uploadFinished
AllSucceeded ==
    /\ added
    /\ \A c \in Created : worker[c] = "done" /\ err[c] = ""

\* the aggregate's final SUCCESS: status, last event, registry
FinalSuccess ==
    /\ status.State = StateSuccess
    /\ status.Progress = 100
    /\ status.EndTime
    /\ CountEvents(StateSuccess) = 1
    /\ events[Len(events)].State = StateSuccess
    /\ events[Len(events)].Progress = 100
    /\ uploads = {}
    /\ ~hasPendingUploads

\* a transfer of child c has returned success
Returned(c) ==
    err[c] = "" /\ worker[c] \in {"finishedUnreg", "finishedLock",
                                  "finishedRemove", "done"}

\* C8 (as stated): successful completion.  If every child is started and
\* every transfer returns success, the aggregate ends with one final event
\* SUCCESS / 100, emitted not before its last child has finished, and is
\* removed from the registry, so that hasPending does not report it.
SuccessfulCompletion ==
    /\ AllSucceeded => FinalSuccess
    /\ (\A c \in Children : err[c] = "") =>
           (CountEvents(StateSuccess) > 0 => \A c \in Created : Returned(c))

\* C8 (amended): the same, for an aggregate and children on which no
\* cancel has been requested.
SuccessfulCompletionUncancelled ==
    cancels = << >> => SuccessfulCompletion

\* all children of a full aggregate have finished and no cancel was requested
SuccessfulCompletionWitness ==
    /\ AllSucceeded
    /\ totalCount = MaxChildren
    /\ cancels = << >>
    /\ status.State = StateSuccess

\* C9: the terminal record is frozen.  Once the status is SUCCESS, FAILED or
\* CANCELED no step changes any of its fields.
TerminalRecordFrozen ==
    [][finished(status) => status' = status]_vars

\* C10: drain upper bound.  When Stop returns, no more than its timeout plus
\* one polling interval has passed and no aggregate is still UPLOADING.
DrainUpperBound ==
    [][(stop.pc # "done" /\ stop'.pc = "done")
        => /\ stop'.elapsed <= stop'.timeout + PollSeconds
           /\ ~hasPendingUploads']_vars

\* Uploads.Stop runs its last step: it is past the polling loop and returns
StopReturns == stop.pc = "cancel" /\ stop'.pc = "done"

\* C11: shutdown abort.  When Stop leaves its polling loop with an upload
\* found pending and the aggregate is still UPLOADING, the aggregate is
\* CANCELED when Stop returns, its status carries a reason and a CANCELED
\* event has been emitted; it is not FAILED and not UPLOADING.
ShutdownAbort ==
    [][(StopReturns /\ stop.pending /\ hasPendingUploads)
        => /\ status'.State = StateCanceled
           /\ status'.Message # ""
           /\ events'[Len(events')].State = StateCanceled]_vars

RemovesChild(c) ==
    \/ worker[c] \in {"finishedUnreg", "failedUnreg"} /\ worker'[c] # worker[c]
    \/ \E k \in DOMAIN cancels :
          /\ cancels[k].target = c
          /\ cancels[k].pc = "unregister"
          /\ cancels'[k].pc # "unregister"

\* a step that runs Uploads.Remove on the aggregate
RemovesParent ==
    \/ \E c \in Children : /\ worker[c] \in {"finishedRemove", "failedRemove"}
                           /\ worker'[c] # worker[c]
    \/ \E k \in DOMAIN cancels : /\ cancels[k].pc = "removeMulti"
                                 /\ cancels'[k].pc # "removeMulti"

\* C13: registry completeness on remove.  After Remove of the aggregate
\* neither it nor a child it holds is registered; after Remove of a child
\* that child is not registered and every other entry is as before; a
\* Remove of an id that is not registered changes nothing.
RegistryRemove ==
    [][/\ RemovesParent =>
             /\ uploads' \cap ({MultiID} \cup children) = {}
             /\ MultiID \notin uploads => uploads' = uploads
       /\ \A c \in Children : RemovesChild(c) =>
             /\ c \notin uploads'
             /\ uploads' \ {c} = uploads \ {c}
             /\ c \notin uploads => uploads' = uploads]_vars

\* an aggregate that held a child has been removed by a cancel, and
\* neither is registered
RegistryRemoveWitness ==
    \E k \in DOMAIN cancels :
        /\ cancels[k].target = MultiID
        /\ cancels[k].pc = "done"
        /\ ~cancels[k].done
        /\ children # {}
        /\ uploads \cap ({MultiID} \cup children) = {}

\* the items a ring buffer holds, oldest first
Contents(b) ==
    [i \in 1..((b.end - b.start + Slots(b)) % Slots(b)) |->
        b.elements[(b.start + i - 1) % Slots(b)]]

\* the elements of a sequence
Range(seq) == {seq[i] : i \in DOMAIN seq}

\* C14: event queue delivery.  consume is called at most once per event, in
\* the order in which add accepted the events, never for an event that a
\* later add has overwritten, and, once the consumer is started, every event
\* added is in the end consumed or overwritten, unless the consumer is
\* stopped.
EventDelivery ==
    /\ [](/\ \A i, j \in DOMAIN consumed : i < j => consumed[i] < consumed[j]
          /\ Range(consumed) \subseteq 1..addCount
          /\ Range(consumed) \cap overwritten = {})
    /\ \A e \in 1..MaxAdds :
          [](addCount >= e /\ loop # "idle"
             => <>(e \in Range(consumed) \/ e \in overwritten \/ closed))

\* all events are added, one was overwritten, the others are consumed and
\* the consumer waits for more
EventDeliveryWitness ==
    /\ ~closed
    /\ addCount = MaxAdds
    /\ overwritten # {}
    /\ Range(consumed) = (1..MaxAdds) \ overwritten
    /\ loop = "wait"

\* the last n items of those put so far
LastPut(n) == [i \in 1..n |-> ringPuts - n + i]

\* what a buffer of this capacity is to hold after the puts so far
Kept == LastPut(IF ringPuts < capacity THEN ringPuts ELSE capacity)

\* C15: queue overwrite.  After C + K puts into a buffer of capacity C the
\* gets return the last C items put, in order, and then report the buffer
\* empty; the buffer never holds more than C items.
RingOverwrite ==
    /\ Len(Contents(ring)) <= capacity
    /\ Len(ringDrained) <= Len(Kept)
    /\ ringDrained = SubSeq(Kept, 1, Len(ringDrained))
    /\ Len(Contents(ring)) = Len(Kept) - Len(ringDrained)
    /\ ringEmptySeen => ringDrained = Kept

\* more items than the capacity were put and the buffer is drained
RingOverwriteWitness ==
    /\ capacity >= 2
    /\ ringPuts > capacity + 1
    /\ Len(ringDrained) = capacity
    /\ ringEmptySeen

\* C16: add never blocks and never fails.  The lock add needs is held by
\* the consumer only inside get, never while it waits or while consume
\* runs; every add puts its event at the end of the buffer, and on a full
\* buffer exactly the oldest unread event is discarded for it.
AddNeverBlocks ==
    [][/\ (condL = "consumer") => (loop = "locked")
       /\ \A p \in Producers : (adding[p] = "locked" /\ adding'[p] = "idle") =>
             /\ addCount' = addCount + 1
             /\ IF Len(Contents(buf)) = QueueSize
                THEN /\ Contents(buf') =
                           Append(Tail(Contents(buf)), addCount')
                     /\ overwritten' = overwritten \cup {Head(Contents(buf))}
                ELSE /\ Contents(buf') = Append(Contents(buf), addCount')
                     /\ overwritten' = overwritten]_vars

\* the first consume call is still running and an add has meanwhile
\* overwritten an event in the full buffer
AddNeverBlocksWitness ==
    /\ loop = "consume"
    /\ consumed = <<1>>
    /\ overwritten # {}
    /\ Len(Contents(buf)) = QueueSize

\* C17: event queue stop.  Once stop has set closed no call of consume
\* starts, whatever is pending or added later; a further stop changes
\* nothing; and a started consumer loop exits.
QueueStop ==
    /\ [][closed => /\ closed'
                    /\ consumed' = consumed
                    /\ (stopCalls' # stopCalls =>
                           /\ buf' = buf
                           /\ loop' = loop)]_vars
    /\ [](closed /\ loop # "idle" => <>(loop = "exited"))

\* stop was called twice, the loop has exited, and events are left in the
\* buffer that were never consumed
QueueStopWitness ==
    /\ stopCalls = MaxQueueStops
    /\ loop = "exited"
    /\ consumed # << >>
    /\ ~empty(buf)

\* the goroutine of startTicker invokes the task or waits for the next tick
Ticking == routine \in {"task", "select"}

\* C18: periodic executor Stop.  A Stop call that waits to send on done has
\* a goroutine that will receive, so the call returns; once a Stop call has
\* returned no timer is pending, no ticker runs and no task invocation
\* starts; and a further Stop call changes nothing.
ExecutorStop ==
    [][/\ (stopPc' = "send") => Ticking'
       /\ (stopsReturned >= 1) =>
             /\ taskTimes' = taskTimes
             /\ ~Ticking'
             /\ fromTimer' # "pending" /\ toTimer' # "pending"
       /\ (stopsReturned >= 1 /\ stopsReturned' # stopsReturned) =>
             <<fromTimer, toTimer, ticker, routine>>' =
                <<fromTimer, toTimer, ticker, routine>>]_vars

\* C19: window end.  Once the to timer's callback has run the executor is
\* not ticking, and it does not start ticking later, whether to was reached
\* before or after the ticker was started.
WindowEnd == toCall = "done" => ~Ticking

\* C20: window start.  With from in the future the first task invocation
\* is no earlier than from; with from absent or not in the future the
\* ticker is started before the clock moves on, unless Stop has stopped the
\* from timer; the task is invoked when the ticker is started and then at
\* most once per elapsed period.
WindowStart ==
    /\ (from # NoTime /\ taskTimes # << >>) => taskTimes[1] >= from
    /\ (from <= Epoch /\ now > Epoch /\ fromTimer # "stopped")
          => startedAt = Epoch
    /\ (startedAt # NoTime) => (taskTimes # << >> /\ taskTimes[1] = startedAt)
    /\ \A i \in DOMAIN taskTimes :
          taskTimes[i] >= startedAt + (i - 1) * TickPeriod

\* from was in the future, the task was invoked at from and again a period
\* later
WindowStartWitness ==
    /\ from = Epoch + 1
    /\ Len(taskTimes) >= 2
    /\ taskTimes[1] = from
    /\ taskTimes[2] = from + TickPeriod

\* the quotient of a by b rounded up, for a >= 0 and b > 0
CeilDiv(a, b) == (a + b - 1) \div b

\* C21: periodic executor bounds.  For a window [from, to] and the period P
\* there are no more than ceil((to - from) / P) + 1 task invocations, none
\* of them starts later than to + P, and when the to timer has ended the
\* ticking without any Stop call there were at least floor((to - from) / P).
ExecutorBounds ==
    (from # NoTime /\ to # NoTime) =>
        /\ Len(taskTimes) <= CeilDiv(to - from, TickPeriod) + 1
        /\ \A i \in DOMAIN taskTimes : taskTimes[i] <= to + TickPeriod
        /\ (toCall = "done" /\ routine \in {"defer", "exited"}
                /\ stopPc = "idle" /\ stopsReturned = 0)
              => Len(taskTimes) >= (to - from) \div TickPeriod

\* C22: serialized ticks.  A task invocation starts only when none is in
\* progress, the one goroutine that invokes the task is started once, and
\* the ticks that elapse during an invocation leave one tick at most: no
\* two invocations start at the same instant.
SerializedTicks ==
    [][/\ (taskTimes' # taskTimes) =>
             /\ routine # "task" /\ routine' = "task"
             /\ Len(taskTimes') = Len(taskTimes) + 1
       /\ (startedAt' # startedAt) => routine = "none"
       /\ \A i, j \in DOMAIN taskTimes' :
             i < j => taskTimes'[i] < taskTimes'[j]]_vars

\* the second invocation started after two ticks had elapsed during the
\* first
SerializedTicksWitness ==
    /\ Len(taskTimes) = 2
    /\ taskTimes[2] >= startedAt + 2 * TickPeriod
    /\ routine = "select"
    /\ ~tickPending

\* C23: asynchronous Stop.  A Stop call does not wait for a task invocation
\* that is in flight: it is never held in stopTicker's send while the
\* goroutine is inside the task.
StopAsynchronous == ~(stopPc = "send" /\ routine = "task")

\* a step that is a call of DoTrigger
TriggerCalled == lastCall' # lastCall \/ Len(triggers') > Len(triggers)

\* C24: a trigger called while singleUpload is configured, some aggregate
\* is UPLOADING and the options lack force = "true" fails with "there is an
\* ongoing upload", registers nothing and emits no request; every other
\* trigger with a usable glob proceeds
SingleUploadGuard ==
    [][TriggerCalled =>
          IF singleUpload /\ uploading # {}
                /\ lastCall'.options.force # "true"
          THEN /\ lastCall'.err = ErrOngoing
               /\ registry' = registry
               /\ requests' = requests
               /\ triggers' = triggers
          ELSE /\ lastCall'.err = ""
               /\ Len(triggers') = Len(triggers) + 1]_vars

\* the id of the i-th child of the aggregate with id p, written out
NthChild(p, i) == p \o <<"#", <<"1", "2", "3", "4">>[i]>>

\* C25: when a trigger with id p that found the paths f1..fN returns, the
\* registry holds its aggregate under p and its i-th child under p#i, and
\* exactly N requests were started, the i-th for p#i with file.path fi
TriggerFanOut ==
    [][\A k \in DOMAIN triggers :
          (triggers[k].pc = "add" /\ triggers'[k].pc = "done") =>
             LET p == triggers[k].id
                 f == triggers[k].files
             IN  /\ p \in DOMAIN registry'
                 /\ registry'[p] = [owner |-> k, index |-> 0]
                 /\ \A i \in 1..Len(f) :
                       /\ NthChild(p, i) \in DOMAIN registry'
                       /\ registry'[NthChild(p, i)] =
                             [owner |-> k, index |-> i]
                 /\ requests' \ requests =
                       {[owner |-> k, id |-> NthChild(p, i),
                         path |-> Paths[i], sent |-> FALSE] :
                            i \in 1..Len(f)}]_vars

\* whether the shell pattern c matches g, for the globs of the model
Matches(c, g) ==
    \/ c = GlobNone /\ g = GlobNone
    \/ c = GlobAll /\ g \in {GlobAll, GlobOne}
    \/ c = GlobOne /\ g = GlobOne
    \/ c = GlobDir /\ g = GlobDir

\* whether the mode lets the glob g replace the configured glob c
Permits(m, c, g) ==
    \/ m = ModeLax
    \/ m = ModeStrict /\ g = c
    \/ m = ModeScoped /\ Matches(c, g)

\* C26: a trigger whose options name a glob g fails unless the access mode
\* permits g (strict: g is the configured glob c; scoped: c matches g as a
\* shell pattern; lax: any g); without g the configured glob is used; an
\* empty glob fails with "upload files not specified"; a failed trigger
\* registers nothing and starts no request, any other goes on with the glob
AccessModes ==
    [][(TriggerCalled /\ mode # ModeNA) =>
          LET o == lastCall'.options
              e == lastCall'.err
              glob == IF o.override THEN o.files ELSE filesGlob
          IN  /\ e = IF o.override /\ ~Permits(mode, filesGlob, o.files)
                     THEN ErrNotPermitted
                     ELSE IF glob = GlobNone THEN ErrNotSpecified ELSE ""
              /\ e # "" => /\ registry' = registry
                           /\ requests' = requests
                           /\ triggers' = triggers
              /\ e = "" => /\ Len(triggers') = Len(triggers) + 1
                           /\ triggers'[Len(triggers')].glob = glob]_vars

\* a scoped trigger for a.t under the configured *.t has registered its
\* files after a trigger for d/a.t was refused
AccessModesWitness ==
    /\ mode = ModeScoped
    /\ filesGlob = GlobAll
    /\ lastCall.options.files = GlobDir
    /\ lastCall.err = ErrNotPermitted
    /\ Len(triggers) = 1
    /\ triggers[1].glob = GlobOne
    /\ triggers[1].pc = "done"
    /\ Len(triggers[1].files) = MaxFiles
\* what a refused start leaves alone: the status events, the uploaders and
\* the started flags
NothingStarted ==
    /\ events' = events
    /\ worker' = worker
    /\ invocations' = invocations
    /\ started' = started

\* C27: a start of an id that is not registered is answered 404; a start
\* the upload refuses (the aggregate's id, bad options, a child already
\* started) is answered 500; neither emits a status event, runs an uploader
\* or sets the started flag, so a child refused for its options is accepted
\* by a later valid start; an accepted start launches the uploader and is
\* answered 204
StartErrors ==
    [][/\ (startOp.pc = "idle" /\ startOp'.pc = "idle" /\ startOp' # startOp) =>
             /\ startOp'.status = IF startOp'.id \in uploads
                                  THEN StatusInternalServerError
                                  ELSE StatusNotFound
             /\ startOp'.id \in uploads => startOp'.id = MultiID
             /\ NothingStarted
       /\ (startOp.pc = "call" /\ startOp'.pc = "idle") =>
             /\ ~startOp.valid \/ started[startOp.id] = 1
             /\ startOp'.status = StatusInternalServerError
             /\ NothingStarted
       /\ (startOp.pc = "call" /\ startOp.valid /\ started[startOp.id] = 0) =>
             /\ startOp'.pc # "idle"
             /\ startOp' # startOp => startOp'.pc = "started"
       /\ (startOp.pc = "started" /\ startOp'.pc = "idle") =>
             /\ startOp'.status = StatusNoContent
             /\ worker'[startOp.id] = "open"]_vars

\* the only child was refused for its options and then started with valid
\* options, which was answered 204
StartErrorsWitness ==
    /\ totalCount = 1
    /\ startCalls = 2
    /\ accepted[1] = 1
    /\ rejected[1] = 0
    /\ startOp = [id |-> 1, valid |-> TRUE, pc |-> "idle",
                  status |-> StatusNoContent]

\* C28: an activate whose to is before its from is answered 400 and leaves
\* the feature state and the running executor as they are; any other
\* activate sets the state to active with the new window, creates the new
\* executor only after the previous one has been stopped, so that the
\* previous one has no pending timer, no ticker and no further task
\* invocation, and publishes the new state as the autoUpload property
ActivateOperation ==
    [][/\ (op.name = "none" /\ op'.name = "activate") =>
             IF op'.to < op'.from
             THEN /\ op'.status = StatusBadRequest
                  /\ op'.pc = "done"
                  /\ featureState' = featureState
                  /\ executor' = executor
                  /\ timerVars' = timerVars
             ELSE featureState' = [active |-> TRUE, startTime |-> op'.from,
                                   endTime |-> op'.to]
       /\ (executor = "old" /\ executor' = "new") => stopsReturned = 1
       /\ executor = "new" =>
             /\ ~Ticking'
             /\ taskTimes' = taskTimes
             /\ fromTimer' # "pending" /\ toTimer' # "pending"
       /\ (op.name = "activate" /\ op.pc = "publish" /\ op'.pc = "done") =>
             /\ published' = <<featureState>>
             /\ featureState = [active |-> TRUE, startTime |-> op.from,
                                endTime |-> op.to]
             /\ op'.status = StatusNoContent]_vars

\* the order of the steps of Disconnect that the claim names
StopOrder == <<"consumer", "executor", "drain", "close">>

\* the elements of seq that occur in StopOrder, in the order of seq
RECURSIVE Named(_)
Named(seq) ==
    IF seq = << >> THEN << >>
    ELSE IF \E i \in DOMAIN StopOrder : StopOrder[i] = Head(seq)
    THEN <<Head(seq)>> \o Named(Tail(seq))
    ELSE Named(Tail(seq))

\* C29: Disconnect stops the event consumer, then the executor, then
\* drains the registry, then closes the connection; and once the executor
\* step is done no periodic task invocation starts
GracefulStopOrder ==
    [][/\ Named(steps') = SubSeq(StopOrder, 1, Len(Named(steps')))
       /\ (\E i \in DOMAIN steps : steps[i] = "executor") =>
             taskTimes' = taskTimes]_vars
\* C30: a status event SUCCESS is emitted only if every child the
\* aggregate was created with has returned from a successful transfer: with
\* a child that failed or was cancelled no SUCCESS is emitted, however a
\* sibling's finish interleaves with that child's removal
SuccessRequiresAll ==
    CountEvents(StateSuccess) > 0 => \A c \in Created : Returned(c)

\* C31: startExecutor or stopExecutor never holds the control-plane mutex
\* waiting for the ticker goroutine to receive the stop signal while that
\* goroutine's task invocation waits for the same mutex in nextUID
ControlPlaneReturns ==
    ~(uMutex = "op" /\ stopPc = "send" /\ routine = "task" /\ ~gotUID)

\* C32: once the aggregate is CANCELED or FAILED no uploader invocation
\* begins for any of its children
NoUploadAfterEnd ==
    [][status.State \in {StateCanceled, StateFailed} =>
          invocations' = invocations]_vars

\* C33: a registry entry is removed only by the end of the aggregate that
\* created it: with a correlation id used again, the finish, failure or cancel
\* of the older aggregate removes neither the newer aggregate nor its children
RemovedByOwner ==
    [][\A id \in DOMAIN registry \ DOMAIN registry' :
          registry[id].owner \in uploading \ uploading']_vars

\* the trigger operation of a single-upload feature whose calls never carry
\* force = "true"
InitSingle == InitTrigger /\ singleUpload = TRUE

NextSingle ==
    \/ \E id \in TriggerIDs, o \in PlainOptions :
          /\ o.force # "true"
          /\ DoTriggerCheck(id, o) /\ UNCHANGED notTriggerVars
    \/ \E k \in 1..MaxTriggers, files \in FileLists :
          DoTriggerGlob(k, files) /\ UNCHANGED notTriggerVars
    \/ \E k \in 1..MaxTriggers : AddSingle(k) /\ UNCHANGED notTriggerVars
    \/ \E k \in 1..MaxTriggers : UploadFiles(k) /\ UNCHANGED notTriggerVars
    \/ \E r \in requests : SendUploadRequest(r) /\ UNCHANGED notTriggerVars
    \/ \E k \in 1..MaxTriggers : AggregateStarts(k) /\ UNCHANGED notTriggerVars
    \/ \E k \in 1..MaxTriggers, ended \in SUBSET (1..MaxFiles) :
          AggregateEnds(k, ended) /\ UNCHANGED notTriggerVars

SpecSingle == InitSingle /\ [][NextSingle]_vars

\* C34: with singleUpload set and no trigger carrying force = "true", at most
\* one aggregate is UPLOADING at any time
OneUploading == singleUpload => Cardinality(uploading) <= 1

\* C35: a status event that add has accepted, the terminal event of an
\* aggregate among them, is passed to consume: at any time it has been
\* consumed already, or it waits in the buffer of a consumer that is not
\* closed; no put of another event discards it and no stop leaves it unread
TerminalEventDelivered ==
    \A e \in 1..addCount :
        \/ e \in Range(consumed)
        \/ e \in Range(Contents(buf)) /\ ~closed

\* the start of child c reaches uploadStarted in this step
ReachesUploadStarted(c) == worker[c] = "started" /\ worker'[c] = "open"

\* the step installs the status of a first start and emits it
InstallsUploading ==
    /\ \E info \in Infos : status' = StartedStatus(info)
    /\ status'.State = StateUploading
    /\ status'.Progress = 0
    /\ status'.StartTime
    /\ events' = Append(events, status')

\* C36 (as stated): first start.  Among the start calls on the children of
\* the aggregate the first accepted one moves it to UPLOADING with progress
\* 0, a start time and the info of the start options and emits one status
\* event; every later one emits no event and leaves the status as it is.
FirstStartInstalls ==
    [][\A c \in Children : ReachesUploadStarted(c) =>
          IF \A d \in Children : worker[d] \in {"idle", "started"}
          THEN InstallsUploading
          ELSE status' = status /\ events' = events]_vars

\* C36 (amended): the same, where the first start is the first one that
\* finds the aggregate without a status: a start that follows a cancel of
\* the aggregate emits no event and leaves the status as it is.
FirstStartOnly ==
    [][\A c \in Children : ReachesUploadStarted(c) =>
          IF status = NilStatus
          THEN InstallsUploading
          ELSE status' = status /\ events' = events]_vars

\* both children of the aggregate were started and the one event emitted is
\* the UPLOADING event of the first start
FirstStartWitness ==
    /\ totalCount = MaxChildren
    /\ \A c \in Created : worker[c] = "open"
    /\ \E info \in Infos : events = <<StartedStatus(info)>>
    /\ status = events[1]

\* C37: the status listener is never called by a goroutine that holds the
\* registry lock or an aggregate's lock, in uploadStarted, changeProgress,
\* uploadFinished, uploadFailed or cancel
ListenerOutsideLocks ==
    \A t \in Threads :
        Busy(threads[t]) /\ NextCall(threads[t]).k = "listener"
            => Held(threads[t]) \cap {Registry, Aggregate} = {}

\* C38: lock order.  No goroutine acquires an aggregate's lock while it
\* holds the registry lock, in any operation of the registry
LockOrder ==
    [][\A t \in Threads :
          Aggregate \in Held(threads'[t]) \ Held(threads[t])
              => Registry \notin Held(threads[t])]_vars

\* some goroutines wait for each other in a cycle: each of them waits for a
\* lock that another of them holds or is first in line for
CyclicWait ==
    \E D \in (SUBSET Threads) \ {{}} :
        \A t \in D : \E u \in D : Blocks(threads[u], threads[t])

\* C39: deadlock freedom of the upload engine.  No interleaving of the
\* operations of the registry, of the aggregate and of the events consumer
\* reaches a cyclic wait on the registry lock, an aggregate's lock, a
\* child's lock and the queue lock, and every operation a goroutine has
\* entered returns: it leaves each of its sections.
DeadlockFreedom ==
    /\ []~CyclicWait
    /\ \A t \in Threads : Busy(threads[t]) ~> ~Busy(threads[t])

\* a goroutine waits for the registry lock, whose holder waits for the
\* aggregate's lock, whose holder is about to call the listener
DeadlockFreedomWitness ==
    \E t, u, v \in Threads :
        /\ Blocks(threads[u], threads[t])
        /\ NextCall(threads[t]).l = Registry
        /\ Blocks(threads[v], threads[u])
        /\ NextCall(threads[u]).l = Aggregate
        /\ NextCall(threads[v]).k = "listener"

\* C40: every status event emitted for the aggregate carries the aggregate's
\* correlation id, the CANCELED event of an aggregate that is cancelled
\* before any of its children was started included
EventsCarryCorrelationID ==
    \A i \in DOMAIN events : events[i].CorrelationID = MultiID

====
